---- MODULE Spec2Model ----
(***************************************************************************)
(* The Objective-C type generator of stone (stone/target/obj_c_types.py    *)
(* and obj_c_helpers.py).  The generator is a function from a schema to    *)
(* the text of Objective-C classes.  The model keeps the generator's       *)
(* functions as operators that return the emitted code as a syntax tree    *)
(* (statements and expressions, one node per emitted line), and runs that  *)
(* tree on instances and dictionaries with the semantics of Objective-C.   *)
(***************************************************************************)
EXTENDS Integers, Sequences, FiniteSets, TLC

VARIABLES
    schema,   \* the data type the generator was given
    code,     \* the classes the generator emitted for it
    obj,      \* the instance most recently built from the generated class
    wire,     \* the JSON dictionary on the wire
    call,     \* the most recent call into the generated code
    result    \* what that call did: the exception raised, the value returned

vars == <<schema, code, obj, wire, call, result>>

\* ------------------------------------------------------------------ bounds

\* Most variants a union of the model declares.
MaxVariants == 3
\* Payload and field values are 0..MaxValue.
MaxValue == 1
\* Constraint bounds (min_value, max_value) range over -MaxBound..MaxBound,
\* constructor arguments over -(MaxBound+1)..(MaxBound+1).
MaxBound == 2
\* Most subtypes an enumerated-subtype hierarchy of the model declares.
MaxSubtypes == 2

\* ------------------------------------------------------------------ names

\* A schema name is kept as the list of its words, which is what
\* split_words returns for it; the name as written in the schema is the
\* words joined by underscores.
RECURSIVE Join(_, _)
Join(words, sep) ==
    IF Len(words) = 0 THEN ""
    ELSE IF Len(words) = 1 THEN words[1]
    ELSE words[1] \o sep \o Join(Tail(words), sep)

split_words(name) == name

\* str.capitalize and str.lower on the vocabulary of the model.
CapitalizeTable ==
    [x |-> "X", y |-> "Y", z |-> "Z", w |-> "W",
     file |-> "File", meta |-> "Meta", id |-> "Id",
     shape |-> "Shape", root |-> "Root", a |-> "A", b |-> "B", c |-> "C",
     folder |-> "Folder", size |-> "Size", count |-> "Count",
     n |-> "N", s |-> "S", object |-> "Object", new |-> "New",
     copy |-> "Copy"]

capitalize(word) == CapitalizeTable[word]

\* Every word of the vocabulary is written in lower case in the schema.
lower(word) == word

_reserved_words ==
    {"auto", "else", "long", "switch", "break", "enum", "register",
     "typedef", "case", "extern", "return", "union", "char", "float",
     "short", "unsigned", "const", "for", "signed", "void", "continue",
     "goto", "sizeof", "volatile", "default", "if", "static", "while",
     "do", "int", "struct", "_Packed", "double", "protocol", "interface",
     "implementation", "NSObject", "NSInteger", "NSNumber", "CGFloat",
     "property", "nonatomic", "retain", "strong", "weak",
     "unsafe_unretained", "readwrite", "description", "id"}

_reserved_prefixes == {"copy", "new"}

startswith(s, prefix) ==
    Len(s) >= Len(prefix) /\ SubSeq(s, 1, Len(prefix)) = prefix

fmt_camel(name, upper_first) ==
    LET split == split_words(name)
        words == [i \in 1..Len(split) |-> capitalize(split[i])]
        cased == IF upper_first THEN words
                 ELSE [words EXCEPT ![1] = lower(split[1])]
        ret == Join(cased, "")
        \* ret.lower()
        ret_lower == Join([i \in 1..Len(split) |-> lower(split[i])], "")
        reserved == ret_lower \in _reserved_words
        suffix == IF reserved THEN "_" ELSE ""
        \* ret[0].upper() + ret[1:]
        upper_ret == Join(words, "") \o suffix
    IN  IF \E p \in _reserved_prefixes : startswith(ret_lower \o suffix, p)
        THEN (IF upper_first THEN "The" ELSE "the") \o upper_ret
        ELSE ret \o suffix

fmt_camel_upper(name) == fmt_camel(name, TRUE)

fmt_class(name) == fmt_camel_upper(name)

fmt_var(name) == fmt_camel(name, FALSE)

\* A dictionary keyed by the identifier of a field instead of its name.
NameCased(name) == fmt_var(name)

\* field.name, the name as the schema declares it, which the serializers
\* use as the dictionary key.
RawName(name) == Join(name, "_")

\* ------------------------------------------------------------------ values

\* An exception, and the absence of one.
NoExc == [name |-> "none", required |-> "", actual |-> ""]
Exc(name) == [name |-> name, required |-> "", actual |-> ""]

\* Objective-C values: a number object, nil, the NSNull singleton, a string.
Num(n) == [k |-> "num", n |-> n, s |-> ""]
Nil == [k |-> "nil", n |-> 0, s |-> ""]
NSNull == [k |-> "NSNull", n |-> 0, s |-> ""]
Str(s) == [k |-> "str", n |-> 0, s |-> s]

\* An NSArray of values.
Arr(items) == [k |-> "arr", n |-> 0, s |-> "", items |-> items]

Numbers == {Num(n) : n \in 0..MaxValue}

\* An NSDictionary: a function from its keys.
EmptyDict == [key \in {} |-> Nil]

\* dict[key] = value.  Storing nil is left to the caller of DictPut.
DictPut(dict, key, value) ==
    [x \in DOMAIN dict \cup {key} |-> IF x = key THEN value ELSE dict[x]]

\* dict[key]: nil for a key the dictionary does not hold.
DictGet(dict, key) == IF key \in DOMAIN dict THEN dict[key] ELSE Nil

\* ------------------------------------------------------------------ types

Void == [kind |-> "Void"]
Int32(min_value, max_value) ==
    [kind |-> "Int32", min_value |-> min_value, max_value |-> max_value]
Nullable(data_type) == [kind |-> "Nullable", data_type |-> data_type]
UInt32(min_value, max_value) ==
    [kind |-> "UInt32", min_value |-> min_value, max_value |-> max_value]
Boolean == [kind |-> "Boolean"]
Bytes == [kind |-> "Bytes"]
Timestamp(format) == [kind |-> "Timestamp", format |-> format]
is_timestamp_type(data_type) == data_type.kind = "Timestamp"
String(min_length, max_length, pattern) ==
    [kind |-> "String", min_length |-> min_length,
     max_length |-> max_length, pattern |-> pattern]
List(data_type, min_items, max_items) ==
    [kind |-> "List", data_type |-> data_type,
     min_items |-> min_items, max_items |-> max_items]

\* A constraint the schema leaves unset (Python's None), and one it sets.
None == [set |-> FALSE, v |-> 0]
Some(v) == [set |-> TRUE, v |-> v]

\* Python's truth value of a constraint: None and 0 are both false.
Truthy(x) == x.set /\ x.v # 0

unwrap_nullable(data_type) ==
    IF data_type.kind = "Nullable"
    THEN <<data_type.data_type, TRUE>>
    ELSE <<data_type, FALSE>>

is_void_type(data_type) == data_type.kind = "Void"

is_numeric_type(data_type) ==
    data_type.kind \in
        {"Float32", "Float64", "Int32", "Int64", "UInt32", "UInt64"}

is_list_type(data_type) == data_type.kind = "List"

is_string_type(data_type) == data_type.kind = "String"

is_boolean_type(data_type) == data_type.kind = "Boolean"

\* The default of a field as the schema parser holds it: a Python int, bool
\* or string, a reference to a tag of a union, or None.
PyNone == [py |-> "None"]
PyInt(n) == [py |-> "int", n |-> n]
PyBool(b) == [py |-> "bool", b |-> b]
PyStr(s) == [py |-> "str", s |-> s]
TagRef(union_data_type, tag_name) ==
    [py |-> "TagRef", union_data_type |-> union_data_type,
     tag_name |-> tag_name]

is_tag_ref(default) == default.py = "TagRef"

is_user_defined_type(data_type) == data_type.kind \in {"Struct", "Union"}

\* ------------------------------------------------------------------ helpers

RECURSIVE Flatten(_)
Flatten(seqs) ==
    IF Len(seqs) = 0 THEN << >> ELSE Head(seqs) \o Flatten(Tail(seqs))

_serial_table ==
    [Boolean |-> "BoolSerializer", Bytes |-> "NSDataSerializer",
     Float32 |-> "NSNumberSerializer", Float64 |-> "NSNumberSerializer",
     Int32 |-> "NSNumberSerializer", Int64 |-> "NSNumberSerializer",
     List |-> "ArraySerializer", String |-> "StringSerializer",
     Timestamp |-> "NSDateSerializer", UInt32 |-> "NSNumberSerializer",
     UInt64 |-> "NSNumberSerializer"]

fmt_serial_obj(data_type) ==
    LET dt == unwrap_nullable(data_type)[1]
    IN  IF is_user_defined_type(dt)
        THEN fmt_class(dt.name) \o "Serializer"
        ELSE _serial_table[dt.kind]

_primitive_table ==
    [Boolean |-> "NSNumber *", Bytes |-> "NSData", Float32 |-> "NSNumber *",
     Float64 |-> "NSNumber *", Int32 |-> "NSNumber *", Int64 |-> "NSNumber *",
     List |-> "NSArray", String |-> "NSString *", Timestamp |-> "NSDate *",
     UInt32 |-> "NSNumber *", UInt64 |-> "NSNumber *", Void |-> "void"]

_true_primitives == {"Boolean"}

\* The Objective-C type of a data type, as the pieces of text the function
\* puts one after the other.  In the list branch the name data_type is
\* bound again to the element type, which is the type the void test at the
\* end looks at.
RECURSIVE fmt_type(_, _, _)
fmt_type(data_type, tag, has_default) ==
    LET dt == unwrap_nullable(data_type)[1]
        nullable == unwrap_nullable(data_type)[2]
        is_list == ~is_user_defined_type(dt) /\ is_list_type(dt)
        element == IF is_list THEN unwrap_nullable(dt.data_type)[1] ELSE dt
        type_text ==
            IF is_user_defined_type(dt) THEN <<fmt_class(dt.name) \o " *">>
            ELSE IF ~is_list THEN <<_primitive_table[dt.kind]>>
            ELSE IF element.kind \in _true_primitives
            THEN <<_primitive_table[dt.kind], " *",
                   IF nullable \/ has_default THEN " _Nullable"
                   ELSE " _Nonnull">>
            ELSE <<_primitive_table[dt.kind], "<">>
                 \o fmt_type(element, FALSE, FALSE) \o <<">", " *">>
    IN  type_text
        \o (IF ~tag THEN << >>
            ELSE IF nullable \/ has_default THEN <<" _Nullable">>
            ELSE IF ~is_void_type(element) THEN <<" _Nonnull">>
            ELSE << >>)

\* '(<type>)<name> <name>:(<type>)<name> ...': a parameter list, kept as
\* the names and the types in order.
fmt_func_args_declaration(arg_str_pairs) ==
    [names |-> [i \in 1..Len(arg_str_pairs) |-> arg_str_pairs[i][1]],
     types |-> [i \in 1..Len(arg_str_pairs) |-> arg_str_pairs[i][2]]]

\* The parameter list of an implementation, from the fields.
fmt_func_args_from_fields(args) ==
    [names |-> [i \in 1..Len(args) |-> fmt_var(args[i].name)],
     types |-> [i \in 1..Len(args) |->
                  fmt_type(args[i].data_type, FALSE, FALSE)]]

\* A header parameter list whose types take no account of defaults.
CstorArgsWithoutDefaults(fields, is_struct) ==
    fmt_func_args_declaration(
        [i \in 1..Len(fields) |->
            <<fmt_var(fields[i].name),
              fmt_type(fields[i].data_type, TRUE, FALSE)>>])

\* The parameter list of a header signature, from the fields.
_cstor_args_from_fields(fields, is_struct) ==
    fmt_func_args_declaration(
        [i \in 1..Len(fields) |->
            <<fmt_var(fields[i].name),
              fmt_type(fields[i].data_type, TRUE,
                       is_struct /\ fields[i].has_default)>>])

\* '- (<return_type>)<func_name>:<fields>;'
fmt_signature(func_name, fields, return_type) ==
    [name |-> func_name, params |-> fields.names, types |-> fields.types,
     return_type |-> return_type]

\* '@property ({}) {} {};' with attrs = ['nonatomic']: the attribute list
\* is what decides whether Objective-C synthesizes a setter.
fmt_property_str(prop_name, prop_type) ==
    [attrs |-> {"nonatomic"}, type |-> prop_type, name |-> prop_name]

\* '@property ({}) {} {};' for a field, with the same attribute list.
fmt_property(field) ==
    [attrs |-> {"nonatomic"}, type |-> field.data_type,
     name |-> fmt_var(field.name)]

\* The constructor of one union variant is named after the variant.
_cstor_name_from_field(field) == "initWith" \o fmt_camel_upper(field.name)

_generate_throw_error(name, reason) ==
    [s |-> "throw", name |-> name, reason |-> reason]

\* A serialization call that hands over the value alone, whatever the type.
SerializationCallOfValue(data_type, input_value, serialize) ==
    [e |-> "serial_call",
     serial_obj |-> fmt_serial_obj(unwrap_nullable(data_type)[1]),
     func |-> IF serialize THEN "serialize" ELSE "deserialize",
     args |-> <<[name |-> "value", value |-> input_value]>>]

\* The expression '[<Serializer> serialize:<input_value>]' (or deserialize).
\* A list adds 'withBlock:^id(id obj) { return <call on obj>; }' and a
\* timestamp adds 'dateFormat:@"<format>"'.
RECURSIVE _fmt_serialization_call(_, _, _)
_fmt_serialization_call(data_type, input_value, serialize) ==
    LET dt == unwrap_nullable(data_type)[1]
        serializer_func == IF serialize THEN "serialize" ELSE "deserialize"
        serializer_args ==
            <<[name |-> "value", value |-> input_value]>>
            \o (IF is_list_type(dt)
                THEN <<[name |-> "withBlock",
                        value |-> [e |-> "block", param |-> "obj",
                                   body |-> _fmt_serialization_call(
                                                dt.data_type,
                                                [e |-> "arg", name |-> "obj"],
                                                serialize)]]>>
                ELSE IF is_timestamp_type(dt)
                THEN <<[name |-> "dateFormat",
                        value |-> [e |-> "string", s |-> dt.format]]>>
                ELSE << >>)
    IN  [e |-> "serial_call", serial_obj |-> fmt_serial_obj(dt),
         func |-> serializer_func, args |-> serializer_args]

\* ------------------------------------------------------------------ union class

\* typedef NS_ENUM(NSInteger, <Union>Tag): the constants in declaration order.
_generate_union_tag_state(fields, union_name) ==
    [i \in 1..Len(fields) |-> fmt_class(fields[i].name) \o "_" \o union_name]

\* The NSInteger an enum constant stands for: NS_ENUM numbers them from 0.
EnumValue(enum, const) ==
    (CHOOSE i \in 1..Len(enum) :
        enum[i] = const /\ \A j \in 1..(i - 1) : enum[j] # const) - 1

\* One constructor per variant: 'self = [self init]; _tag = ...; _x = x;'.
_generate_union_cstor_funcs(fields, union_name) ==
    [i \in 1..Len(fields) |->
        LET field == fields[i]
            enum_field_name == fmt_camel_upper(field.name) \o "_" \o union_name
        IN  [name |-> _cstor_name_from_field(field),
             params |-> IF is_void_type(field.data_type) THEN << >>
                        ELSE <<fmt_var(field.name)>>,
             body |->
                <<[s |-> "assign_tag", const |-> enum_field_name]>>
                \o (IF ~is_void_type(field.data_type)
                    THEN <<[s |-> "assign_ivar", ivar |-> fmt_var(field.name),
                            value |-> [e |-> "arg", name |-> fmt_var(field.name)]]>>
                    ELSE << >>)]]

\* The is<Tag> methods with every comparison made against the first
\* variant's constant.
IsFuncsFirstConstant(fields, union_name) ==
    [i \in 1..Len(fields) |->
        LET enum_field_name == fmt_camel_upper(fields[1].name) \o "_" \o union_name
        IN  [name |-> "is" \o fmt_camel_upper(fields[i].name),
             params |-> << >>,
             body |-> <<[s |-> "return",
                         value |-> [e |-> "tag_eq", const |-> enum_field_name]]>>]]

\* The is<Tag> methods: 'return _tag == (<Union>Tag)<Tag>_<Union>;'.
GenerateIsFuncs(fields, union_name) ==
    [i \in 1..Len(fields) |->
        LET enum_field_name == fmt_camel_upper(fields[i].name) \o "_" \o union_name
        IN  [name |-> "is" \o fmt_camel_upper(fields[i].name),
             params |-> << >>,
             body |-> <<[s |-> "return",
                         value |-> [e |-> "tag_eq", const |-> enum_field_name]]>>]]

\* getTagName: one 'if (_tag == ...) return @"...";' per variant, then a throw.
GenerateGetTagName(fields, union_name) ==
    LET enum_type == union_name \o "Tag"
    IN  [name |-> "getTagName",
         params |-> << >>,
         body |->
            [i \in 1..Len(fields) |->
                LET enum_field_name ==
                        fmt_camel_upper(fields[i].name) \o "_" \o union_name
                    enum_full_value == "(" \o enum_type \o ")" \o enum_field_name
                IN  [s |-> "if",
                     cond |-> [e |-> "tag_eq", const |-> enum_field_name],
                     body |-> <<[s |-> "return",
                                 value |-> [e |-> "string", s |-> enum_full_value]]>>]]
            \o <<_generate_throw_error("InvalidTagEnum",
                                       "Supplied tag enum has an invalid value.")>>]

_generate_union_tag_state_funcs(fields, union_name) ==
    GenerateIsFuncs(fields, union_name)
    \o <<GenerateGetTagName(fields, union_name)>>

\* The data accessors without the tag check.
AccessorsUnguarded(fields, union_name) ==
    Flatten([i \in 1..Len(fields) |->
        IF ~is_void_type(fields[i].data_type)
        THEN <<[name |-> fmt_camel(fields[i].name, FALSE),
                params |-> << >>,
                body |-> <<[s |-> "return",
                            value |-> [e |-> "ivar",
                                       name |-> fmt_var(fields[i].name)]]>>]>>
        ELSE << >>])

\* The data accessors, one per variant whose type is not void.
_generate_union_tag_vars_funcs(fields, union_name) ==
    LET enum_type == union_name \o "Tag"
        accessor(field) ==
            LET enum_field_name ==
                    fmt_camel_upper(field.name) \o "_" \o union_name
                enum_full_value == "(" \o enum_type \o ")" \o enum_field_name
            IN  [name |-> fmt_camel(field.name, FALSE),
                 params |-> << >>,
                 body |->
                    <<[s |-> "if",
                       cond |-> [e |-> "tag_ne", const |-> enum_field_name],
                       body |-> <<[s |-> "raise",
                                   name |-> "IllegalStateException",
                                   required |-> enum_full_value,
                                   actual |-> [e |-> "send_self",
                                               selector |-> "getTagName"]]>>],
                      [s |-> "return",
                       value |-> [e |-> "ivar", name |-> fmt_var(field.name)]]>>]
    IN  Flatten([i \in 1..Len(fields) |->
            IF ~is_void_type(fields[i].data_type)
            THEN <<accessor(fields[i])>>
            ELSE << >>])

\* '@property (nonatomic) <Union>Tag tag;'
_generate_union_tag_property(union_name) ==
    fmt_property_str("tag", union_name \o "Tag")

\* The payload properties: none for a void variant.
_generate_union_properties(fields) ==
    Flatten([i \in 1..Len(fields) |->
        IF ~is_void_type(fields[i].data_type)
        THEN <<fmt_property(fields[i])>>
        ELSE << >>])

\* The body of the union serializer's serialize:.  Each variant gets an
\* 'if ([valueObj is<Tag>]) { ... }' block; the throw and the return are
\* emitted after the loop, outside every block.
_generate_union_serializer(union) ==
    LET block(field) ==
            LET unwrapped == unwrap_nullable(field.data_type)
                data_type == unwrapped[1]
                nullable == unwrapped[2]
                input_value == [e |-> "prop", receiver |-> "valueObj",
                                name |-> fmt_var(field.name)]
                serialize_call ==
                    _fmt_serialization_call(field.data_type, input_value, TRUE)
                put == [s |-> "put", key |-> RawName(field.name),
                        value |-> serialize_call]
            IN  [s |-> "if",
                 cond |-> [e |-> "send", receiver |-> "valueObj",
                           selector |-> "is" \o fmt_camel_upper(field.name)],
                 body |->
                    (IF ~is_void_type(data_type)
                     THEN IF ~nullable
                          THEN <<put>>
                          ELSE <<[s |-> "if",
                                  cond |-> [e |-> "not_isEqual_NSNull",
                                            value |-> input_value],
                                  body |-> <<put>>]>>
                     ELSE << >>)
                    \o <<[s |-> "put", key |-> ".tag",
                          value |-> [e |-> "string", s |-> RawName(field.name)]]>>]
    IN  [name |-> "serialize",
         params |-> <<"valueObj">>,
         body |->
            <<[s |-> "alloc_jsonDict"]>>
            \o [i \in 1..Len(union.all_fields) |-> block(union.all_fields[i])]
            \o <<_generate_throw_error("InvalidTagEnum",
                                       "Supplied tag enum has an invalid value.")>>
            \o <<[s |-> "return", value |-> [e |-> "jsonDict"]]>>]

\* The body of the union serializer's deserialize:.
_generate_union_deserializer(union) ==
    LET block(field) ==
            LET nullable == unwrap_nullable(field.data_type)[2]
                input_value == [e |-> "dict_get", receiver |-> "valueDict",
                                key |-> RawName(field.name)]
                call_ == _fmt_serialization_call(field.data_type, input_value, FALSE)
                deserialize_call ==
                    IF nullable
                    THEN [e |-> "ne_nil_ternary", test |-> input_value,
                          then |-> call_]
                    ELSE call_
                deserialized_obj_args ==
                    IF ~is_void_type(field.data_type)
                    THEN <<[e |-> "local", name |-> fmt_var(field.name)]>>
                    ELSE << >>
            IN  [s |-> "if",
                 cond |-> [e |-> "isEqualToString",
                           value |-> [e |-> "local", name |-> "tag"],
                           string |-> RawName(field.name)],
                 body |->
                    (IF ~is_void_type(field.data_type)
                     THEN <<[s |-> "local", name |-> fmt_var(field.name),
                             value |-> deserialize_call]>>
                     ELSE << >>)
                    \o <<[s |-> "return",
                          value |-> [e |-> "alloc_init",
                                     class |-> fmt_class(union.name),
                                     cstor |-> _cstor_name_from_field(field),
                                     args |-> deserialized_obj_args]]>>]
    IN  [name |-> "deserialize",
         params |-> <<"valueDict">>,
         body |->
            <<[s |-> "local", name |-> "tag",
               value |-> [e |-> "dict_get", receiver |-> "valueDict",
                          key |-> "tag"]]>>
            \o [i \in 1..Len(union.all_fields) |-> block(union.all_fields[i])]
            \o <<_generate_throw_error("InvalidTagEnum",
                                       "Supplied tag enum has an invalid value.")>>]

\* The implementation and header of one union: the class and its serializer.
_generate_union_class_m(union) ==
    LET union_name == fmt_class(union.name)
    IN  [name |-> union_name,
         kind |-> "union",
         super |-> "",
         enum |-> _generate_union_tag_state(union.all_fields, union_name),
         cstors |-> _generate_union_cstor_funcs(union.all_fields, union_name),
         methods |->
            _generate_union_tag_state_funcs(union.all_fields, union_name)
            \o _generate_union_tag_vars_funcs(union.all_fields, union_name),
         properties |->
            <<_generate_union_tag_property(union_name)>>
            \o _generate_union_properties(union.all_fields),
         serializer |->
            <<_generate_union_serializer(union),
              _generate_union_deserializer(union)>>]

\* ------------------------------------------------------------------ struct class

_validator_table ==
    [Float32 |-> "numericValidator", Float64 |-> "numericValidator",
     Int32 |-> "numericValidator", Int64 |-> "numericValidator",
     List |-> "arrayValidator", String |-> "stringValidator",
     UInt32 |-> "numericValidator", UInt64 |-> "numericValidator"]

fmt_validator(data_type) == _validator_table[data_type.kind]

\* [NSNumber numberWithInt:n]: the argument is a 32-bit int, which every
\* integer the model checker can hold is; the number boxes it unchanged.
NumberWithInt(n) == Num(n)

NoValidator == [v |-> "none"]

\* The numeric branch of _determine_validator_type: the tests are Python
\* truth tests of min_value and max_value.
NumericValidatorType(data_type) ==
    IF Truthy(data_type.min_value) \/ Truthy(data_type.max_value)
    THEN [v |-> fmt_validator(data_type),
          minValue |-> IF Truthy(data_type.min_value)
                       THEN NumberWithInt(data_type.min_value.v) ELSE Nil,
          maxValue |-> IF Truthy(data_type.max_value)
                       THEN NumberWithInt(data_type.max_value.v) ELSE Nil]
    ELSE NoValidator

\* A pattern as it is written between the quotes of an Objective-C string
\* literal: unicode_escape doubles each backslash, and the replace call
\* puts a backslash before each double quote.  This is the result under
\* Python 2, where encode returns a str.
EscapedPattern(pattern) ==
    CASE pattern = "\\d" -> "\\\\d"
      [] pattern = "\"" -> "\\\""
      [] OTHER -> pattern

\* Python's truth value of a pattern: None and the empty string are false.
TruthyPattern(pattern) == pattern.set /\ pattern.v # ""

\* The string branch of _determine_validator_type.
StringValidatorType(data_type) ==
    IF \/ TruthyPattern(data_type.pattern)
       \/ Truthy(data_type.min_length)
       \/ Truthy(data_type.max_length)
    THEN [v |-> fmt_validator(data_type),
          minLength |-> IF Truthy(data_type.min_length)
                        THEN NumberWithInt(data_type.min_length.v) ELSE Nil,
          maxLength |-> IF Truthy(data_type.max_length)
                        THEN NumberWithInt(data_type.max_length.v) ELSE Nil,
          pattern |-> IF TruthyPattern(data_type.pattern)
                      THEN Str(EscapedPattern(data_type.pattern.v))
                      ELSE Nil]
    ELSE NoValidator

\* The list branch of _determine_validator_type, given the validator
\* composed for the element type: a list always gets a validator.
ListValidatorType(data_type, item_validator) ==
    [v |-> fmt_validator(data_type),
     minItems |-> IF Truthy(data_type.min_items)
                  THEN NumberWithInt(data_type.min_items.v) ELSE Nil,
     maxItems |-> IF Truthy(data_type.max_items)
                  THEN NumberWithInt(data_type.max_items.v) ELSE Nil,
     itemValidator |-> item_validator]

\* The validator of the unwrapped type as it is passed on.
ValidatorUnwrapped(validator, nullable) == validator

\* The end of _determine_validator_type: the validator of a nullable type
\* is the validator of the unwrapped type inside a nullableValidator.
NullableValidatorType(validator, nullable) ==
    IF validator # NoValidator /\ nullable
    THEN [v |-> "nullableValidator", inner |-> validator]
    ELSE validator

\* The validator expression for a type, or NoValidator.
RECURSIVE _determine_validator_type(_, _)
_determine_validator_type(data_type, value) ==
    LET unwrapped == unwrap_nullable(data_type)
        dt == unwrapped[1]
        nullable == unwrapped[2]
        validator ==
            IF is_list_type(dt)
            THEN ListValidatorType(
                     dt, _determine_validator_type(dt.data_type, value))
            ELSE IF is_numeric_type(dt) THEN NumericValidatorType(dt)
            ELSE IF is_string_type(dt) THEN StringValidatorType(dt)
            ELSE NoValidator
    IN  NullableValidatorType(validator, nullable)

\* A constructor that is emitted without the line of a validator.
ValidatorLeftOut(data_type, value) == << >>

\* The line '<validator>(<value>);', emitted when the type has a validator.
_generate_validator(data_type, value) ==
    LET validator == _determine_validator_type(data_type, value)
    IN  IF validator # NoValidator
        THEN <<[s |-> "validate", validator |-> validator,
                value |-> [e |-> "arg", name |-> value]]>>
        ELSE << >>

\* The standard constructor's name is made of the names of its fields.
_cstor_name_from_fields(fields) ==
    IF Len(fields) = 0 THEN "init"
    ELSE "initWith"
         \o Join([i \in 1..Len(fields) |-> fmt_camel_upper(fields[i].name)], "")

\* What fmt_default_value answers when it raises TypeError instead of
\* returning an expression.
RaisesTypeError == [e |-> "raise TypeError"]

\* The expression that makes the default of a field: the constructor call
\* of a union's tag, '[NSNumber numberWithInt:<default>]' for a numeric
\* field, '[NSNumber numberWithBool:YES]' or NO for a boolean field; for a
\* field of any other type, TypeError is raised.
fmt_default_value(field) ==
    IF is_tag_ref(field.default)
    THEN [e |-> "alloc_init",
          class |-> fmt_class(field.default.union_data_type.name),
          cstor |-> "initWith" \o fmt_class(field.default.tag_name),
          args |-> << >>]
    ELSE IF is_numeric_type(field.data_type)
    THEN [e |-> "number", value |-> NumberWithInt(field.default.n)]
    ELSE IF is_boolean_type(field.data_type)
    THEN [e |-> "number",
          value |-> IF field.default.b THEN Num(1) ELSE Num(0)]
    ELSE RaisesTypeError

\* The fields of all_fields that are not the struct's own.
SuperFields(struct) ==
    SubSeq(struct.all_fields, 1, Len(struct.all_fields) - Len(struct.fields))

\* The standard constructor: the validators of all_fields, the call of the
\* supertype's constructor (or of init), the assignments of the own fields.
_generate_struct_cstor(struct) ==
    LET super_fields == SuperFields(struct)
    IN  [name |-> _cstor_name_from_fields(struct.all_fields),
         params |-> fmt_func_args_from_fields(struct.all_fields).names,
         types |-> fmt_func_args_from_fields(struct.all_fields).types,
         body |->
            Flatten([i \in 1..Len(struct.all_fields) |->
                _generate_validator(struct.all_fields[i].data_type,
                                    fmt_var(struct.all_fields[i].name))])
            \o (IF Len(super_fields) > 0
                THEN <<[s |-> "super_init",
                        cstor |-> _cstor_name_from_fields(super_fields),
                        args |-> [i \in 1..Len(super_fields) |->
                                    [e |-> "arg",
                                     name |-> fmt_var(super_fields[i].name)]]]>>
                ELSE <<[s |-> "self_init"]>>)
            \o [i \in 1..Len(struct.fields) |->
                    LET field == struct.fields[i]
                        arg == [e |-> "arg", name |-> fmt_var(field.name)]
                    IN  [s |-> "assign_ivar",
                         ivar |-> fmt_var(field.name),
                         value |-> IF field.has_default
                                   THEN [e |-> "ne_nil_else", test |-> arg,
                                         else |-> fmt_default_value(field)]
                                   ELSE arg]]]

\* A struct whose own fields alone decide on the convenience constructor.
OwnFieldsWithDefaults(struct) ==
    SelectSeq(struct.fields, LAMBDA f : f.has_default)

\* The fields of all_fields that have a default.
_struct_has_defaults(struct) ==
    SelectSeq(struct.all_fields, LAMBDA f : f.has_default)

\* The convenience constructor, emitted when a field has a default: its
\* parameters are the fields without one, and it forwards to the standard
\* constructor with nil for every defaulted field.
_generate_struct_cstor_default(struct) ==
    IF Len(_struct_has_defaults(struct)) = 0 THEN << >>
    ELSE LET fields_no_default ==
                 SelectSeq(struct.all_fields, LAMBDA f : ~f.has_default)
         IN  <<[name |-> _cstor_name_from_fields(fields_no_default),
                params |-> fmt_func_args_from_fields(fields_no_default).names,
                types |-> fmt_func_args_from_fields(fields_no_default).types,
                body |->
                   <<[s |-> "return_self_init",
                      cstor |-> _cstor_name_from_fields(struct.all_fields),
                      args |-> [i \in 1..Len(struct.all_fields) |->
                                  IF ~struct.all_fields[i].has_default
                                  THEN [e |-> "arg",
                                        name |-> fmt_var(struct.all_fields[i].name)]
                                  ELSE [e |-> "nil"]]]>>]>>

\* The signature of the standard constructor in the header.
_generate_struct_cstor_signature(struct) ==
    <<fmt_signature(_cstor_name_from_fields(struct.all_fields),
                    _cstor_args_from_fields(struct.all_fields, TRUE),
                    "nonnull instancetype")>>

\* The signature of the convenience constructor in the header.
_generate_struct_cstor_signature_default(struct) ==
    IF Len(_struct_has_defaults(struct)) = 0 THEN << >>
    ELSE LET fields_no_default ==
                 SelectSeq(struct.all_fields, LAMBDA f : ~f.has_default)
         IN  <<fmt_signature(_cstor_name_from_fields(fields_no_default),
                             _cstor_args_from_fields(fields_no_default, TRUE),
                             "nonnull instancetype")>>

\* The header of one struct: the signatures of its constructors.
_generate_struct_class_h(struct) ==
    [cstors |-> _generate_struct_cstor_signature(struct)
                \o _generate_struct_cstor_signature_default(struct)]

\* The struct's properties, one per own field.
_generate_struct_properties(fields) ==
    [i \in 1..Len(fields) |-> fmt_property(fields[i])]

\* The (tags, subtype) pairs of an enumerated-subtype hierarchy.
get_all_subtypes_with_tags(struct) ==
    [i \in 1..Len(struct.subtypes) |->
        [tags |-> <<struct.subtypes[i].tag>>,
         subtype |-> struct.subtypes[i].data_type]]

has_enumerated_subtypes(struct) == Len(struct.subtypes) > 0

\* The struct serializer with every field written without a presence
\* check.
StructSerializerUnguarded(struct) ==
    LET write(field) ==
            LET input_value == [e |-> "prop", receiver |-> "valueObj",
                                name |-> fmt_var(field.name)]
                serialize_call ==
                    _fmt_serialization_call(field.data_type, input_value, TRUE)
                put == [s |-> "put", key |-> RawName(field.name),
                        value |-> serialize_call]
            IN  put
        \* One block per (tag, subtype) pair; the class tested and the
        \* serializer called are those of struct, the tag is the pair's.
        subtype_block(pair) ==
            [s |-> "if",
             cond |-> [e |-> "class_eq", receiver |-> "valueObj",
                       class |-> fmt_class(struct.name)],
             body |-> <<[s |-> "local", name |-> "subTypeFields",
                         value |-> [e |-> "class_send",
                                    class |-> fmt_class(struct.name) \o "Serializer",
                                    selector |-> "serialize",
                                    args |-> <<[e |-> "local",
                                                name |-> "valueObj"]>>]],
                        [s |-> "merge", from |-> "subTypeFields"],
                        [s |-> "put", key |-> ".tag",
                         value |-> [e |-> "string",
                                    s |-> fmt_var(pair.tags[1])]]>>]
        pairs == get_all_subtypes_with_tags(struct)
    IN  [name |-> "serialize",
         params |-> <<"valueObj">>,
         body |->
            <<[s |-> "alloc_jsonDict"]>>
            \o [i \in 1..Len(struct.all_fields) |-> write(struct.all_fields[i])]
            \o (IF has_enumerated_subtypes(struct)
                THEN [i \in 1..Len(pairs) |-> subtype_block(pairs[i])]
                ELSE << >>)
            \o <<[s |-> "return", value |-> [e |-> "jsonDict"]]>>]

\* The body of the struct serializer's serialize:.
_generate_struct_serializer(struct) ==
    LET write(field) ==
            LET nullable == unwrap_nullable(field.data_type)[2]
                input_value == [e |-> "prop", receiver |-> "valueObj",
                                name |-> fmt_var(field.name)]
                serialize_call ==
                    _fmt_serialization_call(field.data_type, input_value, TRUE)
                put == [s |-> "put", key |-> RawName(field.name),
                        value |-> serialize_call]
            IN  IF ~nullable THEN put
                ELSE [s |-> "if",
                      cond |-> [e |-> "ne_nil", value |-> input_value],
                      body |-> <<put>>]
        \* One block per (tag, subtype) pair; the class tested and the
        \* serializer called are those of struct, the tag is the pair's.
        subtype_block(pair) ==
            [s |-> "if",
             cond |-> [e |-> "class_eq", receiver |-> "valueObj",
                       class |-> fmt_class(struct.name)],
             body |-> <<[s |-> "local", name |-> "subTypeFields",
                         value |-> [e |-> "class_send",
                                    class |-> fmt_class(struct.name) \o "Serializer",
                                    selector |-> "serialize",
                                    args |-> <<[e |-> "local",
                                                name |-> "valueObj"]>>]],
                        [s |-> "merge", from |-> "subTypeFields"],
                        [s |-> "put", key |-> ".tag",
                         value |-> [e |-> "string",
                                    s |-> fmt_var(pair.tags[1])]]>>]
        pairs == get_all_subtypes_with_tags(struct)
    IN  [name |-> "serialize",
         params |-> <<"valueObj">>,
         body |->
            <<[s |-> "alloc_jsonDict"]>>
            \o [i \in 1..Len(struct.all_fields) |-> write(struct.all_fields[i])]
            \o (IF has_enumerated_subtypes(struct)
                THEN [i \in 1..Len(pairs) |-> subtype_block(pairs[i])]
                ELSE << >>)
            \o <<[s |-> "return", value |-> [e |-> "jsonDict"]]>>]

\* The body of the struct serializer's deserialize:.
_generate_struct_deserializer(struct) ==
    LET read(field) ==
            LET nullable == unwrap_nullable(field.data_type)[2]
                input_value == [e |-> "dict_get", receiver |-> "valueDict",
                                key |-> RawName(field.name)]
                call_ == _fmt_serialization_call(field.data_type, input_value, FALSE)
            IN  [s |-> "local", name |-> fmt_var(field.name),
                 value |-> IF nullable
                           THEN [e |-> "ne_nil_ternary", test |-> input_value,
                                 then |-> call_]
                           ELSE call_]
        dispatch(pair) ==
            [s |-> "if",
             cond |-> [e |-> "isEqualToString",
                       value |-> [e |-> "dict_get", receiver |-> "valueDict",
                                  key |-> "tag"],
                       string |-> fmt_var(pair.tags[1])],
             body |-> <<[s |-> "return",
                         value |-> [e |-> "class_send",
                                    class |-> fmt_class(pair.subtype.name)
                                              \o "Serializer",
                                    selector |-> "deserialize",
                                    args |-> <<[e |-> "local",
                                                name |-> "valueDict"]>>]]>>]
        pairs == get_all_subtypes_with_tags(struct)
    IN  [name |-> "deserialize",
         params |-> <<"valueDict">>,
         body |->
            IF ~has_enumerated_subtypes(struct)
            THEN [i \in 1..Len(struct.all_fields) |-> read(struct.all_fields[i])]
                 \o <<[s |-> "return",
                       value |-> [e |-> "alloc_init",
                                  class |-> fmt_class(struct.name),
                                  cstor |-> _cstor_name_from_fields(struct.all_fields),
                                  args |-> [i \in 1..Len(struct.all_fields) |->
                                              [e |-> "local",
                                               name |-> fmt_var(struct.all_fields[i].name)]]]]>>
            ELSE [i \in 1..Len(pairs) |-> dispatch(pairs[i])]
                 \o <<_generate_throw_error("InvalidTagEnum",
                                            "Supplied tag enum has an invalid value.")>>]

\* The implementation and header of one struct: the class and its serializer.
_generate_struct_class_m(struct) ==
    [name |-> fmt_class(struct.name),
     kind |-> "struct",
     super |-> IF struct.supertype = << >> THEN "" ELSE fmt_class(struct.supertype),
     enum |-> << >>,
     cstors |-> <<_generate_struct_cstor(struct)>>
                \o _generate_struct_cstor_default(struct),
     methods |-> << >>,
     header |-> _generate_struct_class_h(struct),
     properties |-> _generate_struct_properties(struct.fields),
     serializer |-> <<_generate_struct_serializer(struct),
                      _generate_struct_deserializer(struct)>>]

\* One class per data type of the namespace, supertypes first.
_generate_namespace_types(data_types) ==
    [i \in 1..Len(data_types) |->
        IF data_types[i].kind = "Struct"
        THEN _generate_struct_class_m(data_types[i])
        ELSE _generate_union_class_m(data_types[i])]

\* The exception a call made while the struct's constructor is emitted
\* raises, which ends the generator.
StructEmissionRaises(struct) ==
    IF \E i \in 1..Len(struct.fields) :
          /\ struct.fields[i].has_default
          /\ fmt_default_value(struct.fields[i]) = RaisesTypeError
    THEN Exc("TypeError") ELSE NoExc

\* A run of the generator over the data types of a namespace: the classes
\* it emitted, or the exception that ended it.
generate(data_types) ==
    IF \E i \in 1..Len(data_types) :
          /\ data_types[i].kind = "Struct"
          /\ StructEmissionRaises(data_types[i]) # NoExc
    THEN [exc |-> Exc("TypeError"), code |-> << >>]
    ELSE [exc |-> NoExc, code |-> _generate_namespace_types(data_types)]

\* ------------------------------------------------------------------ running the emitted code

\* An object before its constructor body runs: 'self = [self init]' leaves
\* every instance variable zero, so the tag is 0 and the payloads are nil.
ClassOf(prog, name) ==
    prog[CHOOSE i \in 1..Len(prog) : prog[i].name = name]

\* The names of the properties a class declares and inherits.
RECURSIVE PropertyNames(_, _)
PropertyNames(prog, class) ==
    {class.properties[i].name : i \in 1..Len(class.properties)}
    \cup (IF class.super = "" THEN {}
          ELSE PropertyNames(prog, ClassOf(prog, class.super)))

\* The method a class answers 'init' with, when the emitted code defines
\* one: a constructor without parameters is named init and overrides the
\* init of NSObject for the class and its subclasses.
RECURSIVE InitOf(_, _)
InitOf(prog, class) ==
    IF \E i \in 1..Len(class.cstors) : class.cstors[i].name = "init"
    THEN <<class.cstors[CHOOSE i \in 1..Len(class.cstors) :
                           class.cstors[i].name = "init"]>>
    ELSE IF class.super = "" THEN << >>
    ELSE InitOf(prog, ClassOf(prog, class.super))

\* The constructor a class answers a selector with: its own, or the one it
\* inherits.
RECURSIVE CstorOf(_, _, _)
CstorOf(prog, class, selector) ==
    IF \E i \in 1..Len(class.cstors) : class.cstors[i].name = selector
    THEN class.cstors[CHOOSE i \in 1..Len(class.cstors) :
                         class.cstors[i].name = selector]
    ELSE CstorOf(prog, ClassOf(prog, class.super), selector)

NewInstance(prog, class) ==
    [class |-> class.name, tag |-> 0,
     ivars |-> [n \in PropertyNames(prog, class) \ {"tag"} |-> Nil]]

NoObj == [class |-> "", tag |-> 0, ivars |-> EmptyDict]

HasMethod(class, selector) ==
    \E i \in 1..Len(class.methods) : class.methods[i].name = selector

MethodOf(methods, selector) ==
    methods[CHOOSE i \in 1..Len(methods) : methods[i].name = selector]

\* The runtime library's primitive serializers (StoneSerializers): a number
\* is its own JSON value in both directions, and nil passes through.
PrimitiveSerializer(serial_obj, func, value) == value

\* The runtime library's validators (StoneValidators) applied to a value:
\* the exception the validator raises, NoExc when the value passes. A
\* numeric validator compares with each bound it was given; a nullable
\* validator passes nil and hands any other value to the inner validator.
RECURSIVE RunValidator(_, _)
RunValidator(validator, value) ==
    CASE validator.v = "numericValidator" ->
            \* The number is read by a message to the value, and a message
            \* to nil answers 0.
            LET n == IF value = Nil THEN 0 ELSE value.n
            IN  IF \/ validator.minValue # Nil /\ n < validator.minValue.n
                   \/ validator.maxValue # Nil /\ n > validator.maxValue.n
                THEN Exc("IllegalArgumentException")
                ELSE NoExc
      [] validator.v = "nullableValidator" ->
            IF value = Nil THEN NoExc
            ELSE RunValidator(validator.inner, value)
      [] validator.v = "arrayValidator" ->
            \* The count of nil is 0; the item validator, when there is
            \* one, is applied to every item.
            LET items == IF value = Nil THEN << >> ELSE value.items
                n == Len(items)
            IN  IF \/ validator.minItems # Nil /\ n < validator.minItems.n
                   \/ validator.maxItems # Nil /\ n > validator.maxItems.n
                   \/ /\ validator.itemValidator # NoValidator
                      /\ \E i \in 1..n :
                            RunValidator(validator.itemValidator, items[i])
                                # NoExc
                THEN Exc("IllegalArgumentException")
                ELSE NoExc

Frame(self, params, args) ==
    [self |-> self,
     vars |-> [n \in {params[i] : i \in 1..Len(params)} |->
                 args[CHOOSE i \in 1..Len(params) : params[i] = n]],
     jsonDict |-> EmptyDict,
     status |-> "run", ret |-> Nil, exc |-> NoExc]

Ok(v) == [ok |-> TRUE, v |-> v, exc |-> NoExc]
Raised(exc) == [ok |-> FALSE, v |-> Nil, exc |-> exc]

\* body(value), with the value computed once.
With(value, body(_)) == CHOOSE y \in {body(x) : x \in {value}} : TRUE

RECURSIVE Eval(_, _, _, _)
RECURSIVE Exec(_, _, _, _, _)
RECURSIVE EvalArgs(_, _, _, _, _)

\* A method body run on a receiver: what a message send evaluates to.
Invoke(prog, method, self, args, env) ==
    With(Exec(prog, method.body, 1, Frame(self, method.params, args), env),
         LAMBDA out :
            IF out.status = "throw" THEN Raised(out.exc) ELSE Ok(out.ret))

\* A constructor body run on an object: it returns self.
ConstructOn(prog, self, cstor, args, env) ==
    With(Exec(prog, cstor.body, 1, Frame(self, cstor.params, args), env),
         LAMBDA out :
            IF out.status = "throw" THEN Raised(out.exc) ELSE Ok(out.self))

\* [[Class alloc] <cstor>:args]
Construct(prog, class, cstor, args, env) ==
    ConstructOn(prog, NewInstance(prog, class), cstor, args, env)

\* [<Class>Serializer serialize:arg] and [<Class>Serializer deserialize:arg].
\* A call that is already running with the same argument never returns: the
\* recursion has no end and the process dies of stack exhaustion.
SerializerCall(prog, class_name, selector, args, env) ==
    LET key == <<class_name, selector, args>>
    IN  IF key \in env.stack THEN Raised(Exc("StackOverflow"))
        ELSE Invoke(prog,
                    MethodOf(ClassOf(prog, class_name).serializer, selector),
                    NoObj, args,
                    [env EXCEPT !.stack = env.stack \cup {key}])

\* The values of an argument list from the i-th on, left to right; the
\* first raise wins.
EvalArgs(prog, exprs, i, fr, env) ==
    IF i > Len(exprs) THEN Ok(<< >>)
    ELSE With(Eval(prog, exprs[i], fr, env), LAMBDA first :
            IF ~first.ok THEN first
            ELSE With(EvalArgs(prog, exprs, i + 1, fr, env), LAMBDA rest :
                    IF ~rest.ok THEN rest ELSE Ok(<<first.v>> \o rest.v)))

Eval(prog, expr, fr, env) ==
    CASE expr.e \in {"arg", "local"} -> Ok(fr.vars[expr.name])
      [] expr.e = "string" -> Ok(Str(expr.s))
      [] expr.e = "number" -> Ok(expr.value)
      [] expr.e = "nil" -> Ok(Nil)
      [] expr.e = "ne_nil" ->
            With(Eval(prog, expr.value, fr, env), LAMBDA x :
                IF ~x.ok THEN x ELSE Ok(x.v # Nil))
      [] expr.e = "ne_nil_else" ->
            With(Eval(prog, expr.test, fr, env), LAMBDA test :
                IF ~test.ok THEN test
                ELSE IF test.v # Nil THEN test
                ELSE Eval(prog, expr.else, fr, env))
      [] expr.e = "class_eq" ->
            Ok(fr.vars[expr.receiver].class = expr.class)
      [] expr.e = "class_send" ->
            With(EvalArgs(prog, expr.args, 1, fr, env), LAMBDA args :
                IF ~args.ok THEN args
                ELSE SerializerCall(prog,
                        SubSeq(expr.class, 1, Len(expr.class) - Len("Serializer")),
                        expr.selector, args.v, env))
      [] expr.e = "jsonDict" -> Ok(fr.jsonDict)
      [] expr.e = "ivar" -> Ok(fr.self.ivars[expr.name])
      [] expr.e = "tag_eq" ->
            Ok(fr.self.tag = EnumValue(ClassOf(prog, fr.self.class).enum, expr.const))
      [] expr.e = "tag_ne" ->
            Ok(fr.self.tag # EnumValue(ClassOf(prog, fr.self.class).enum, expr.const))
      [] expr.e = "send" ->
            LET receiver == fr.vars[expr.receiver]
                class == ClassOf(prog, receiver.class)
            IN  Invoke(prog, MethodOf(class.methods, expr.selector),
                       receiver, << >>, env)
      [] expr.e = "send_self" ->
            LET class == ClassOf(prog, fr.self.class)
            IN  Invoke(prog, MethodOf(class.methods, expr.selector),
                       fr.self, << >>, env)
      [] expr.e = "prop" ->
            \* receiver.name is a message send: the class's own method of
            \* that name when it defines one, the synthesized getter if not.
            LET receiver == fr.vars[expr.receiver]
                class == ClassOf(prog, receiver.class)
            IN  IF HasMethod(class, expr.name)
                THEN Invoke(prog, MethodOf(class.methods, expr.name),
                            receiver, << >>, env)
                ELSE Ok(receiver.ivars[expr.name])
      [] expr.e = "not_isEqual_NSNull" ->
            \* ![x isEqual:[NSNull null]]: a message to nil answers NO.
            With(Eval(prog, expr.value, fr, env), LAMBDA x :
                IF ~x.ok THEN x ELSE Ok(~(x.v # Nil /\ x.v = NSNull)))
      [] expr.e = "serial_call" ->
            \* [<serial_obj> <func>:value]: the serializer emitted for a
            \* struct or union of the namespace, or one of the runtime
            \* library's.
            With(Eval(prog, expr.args[1].value, fr, env), LAMBDA x :
                IF ~x.ok THEN x
                ELSE IF \E i \in 1..Len(prog) :
                            prog[i].name \o "Serializer" = expr.serial_obj
                THEN SerializerCall(prog,
                        SubSeq(expr.serial_obj, 1,
                               Len(expr.serial_obj) - Len("Serializer")),
                        expr.func, <<x.v>>, env)
                ELSE IF expr.serial_obj = "ArraySerializer" /\ x.v.k = "arr"
                THEN \* The block is applied to every item, in order.
                     With(EvalArgs(prog,
                            [i \in 1..Len(x.v.items) |->
                                [e |-> "apply", block |-> expr.args[2].value,
                                 item |-> x.v.items[i]]],
                            1, fr, env),
                          LAMBDA items :
                            IF ~items.ok THEN items ELSE Ok(Arr(items.v)))
                ELSE Ok(PrimitiveSerializer(expr.serial_obj, expr.func, x.v)))
      [] expr.e = "apply" ->
            \* block(item): the body run with the parameter bound to item.
            Eval(prog, expr.block.body,
                 [fr EXCEPT !.vars = (expr.block.param :> expr.item) @@ fr.vars],
                 env)
      [] expr.e = "dict_get" -> Ok(DictGet(fr.vars[expr.receiver], expr.key))
      [] expr.e = "isEqualToString" ->
            With(Eval(prog, expr.value, fr, env), LAMBDA x :
                IF ~x.ok THEN x
                ELSE Ok(x.v.k = "str" /\ x.v.s = expr.string))
      [] expr.e = "ne_nil_ternary" ->
            With(Eval(prog, expr.test, fr, env), LAMBDA test :
                IF ~test.ok THEN test
                ELSE IF test.v # Nil THEN Eval(prog, expr.then, fr, env)
                ELSE Ok(Nil))
      [] expr.e = "alloc_init" ->
            With(EvalArgs(prog, expr.args, 1, fr, env), LAMBDA args :
                IF ~args.ok THEN args
                ELSE Construct(prog, ClassOf(prog, expr.class),
                               MethodOf(ClassOf(prog, expr.class).cstors,
                                        expr.cstor),
                               args.v, env))

Thrown(fr, exc) == [fr EXCEPT !.status = "throw", !.exc = exc]

\* One statement.
Step(prog, stmt, fr, env) ==
    CASE stmt.s = "alloc_jsonDict" -> [fr EXCEPT !.jsonDict = EmptyDict]
      [] stmt.s = "self_init" ->
            \* self = [self init]; the message is dispatched on the class of
            \* self, and an init that is already running for it never
            \* returns.
            LET inits == InitOf(prog, ClassOf(prog, fr.self.class))
                key == <<fr.self.class, "init", << >>>>
            IN  IF inits = << >> THEN fr
                ELSE IF key \in env.stack
                THEN Thrown(fr, Exc("StackOverflow"))
                ELSE With(ConstructOn(prog, fr.self, inits[1], << >>,
                            [env EXCEPT !.stack = env.stack \cup {key}]),
                          LAMBDA r :
                            IF ~r.ok THEN Thrown(fr, r.exc)
                            ELSE [fr EXCEPT !.self = r.v])
      [] stmt.s = "super_init" ->
            With(EvalArgs(prog, stmt.args, 1, fr, env), LAMBDA args :
                IF ~args.ok THEN Thrown(fr, args.exc)
                ELSE With(ConstructOn(prog, fr.self,
                            MethodOf(ClassOf(prog,
                                ClassOf(prog, fr.self.class).super).cstors,
                                stmt.cstor),
                            args.v, env),
                          LAMBDA r :
                            IF ~r.ok THEN Thrown(fr, r.exc)
                            ELSE [fr EXCEPT !.self = r.v]))
      [] stmt.s = "return_self_init" ->
            \* return [self <cstor>:args];
            With(EvalArgs(prog, stmt.args, 1, fr, env), LAMBDA args :
                IF ~args.ok THEN Thrown(fr, args.exc)
                ELSE With(ConstructOn(prog, fr.self,
                            CstorOf(prog, ClassOf(prog, fr.self.class),
                                    stmt.cstor),
                            args.v, env),
                          LAMBDA r :
                            IF ~r.ok THEN Thrown(fr, r.exc)
                            ELSE [fr EXCEPT !.self = r.v, !.status = "return",
                                            !.ret = r.v]))
      [] stmt.s = "validate" ->
            With(Eval(prog, stmt.value, fr, env), LAMBDA x :
                IF ~x.ok THEN Thrown(fr, x.exc)
                ELSE With(RunValidator(stmt.validator, x.v), LAMBDA exc :
                        IF exc # NoExc THEN Thrown(fr, exc) ELSE fr))
      [] stmt.s = "merge" ->
            \* for (NSString* key in from) jsonDict[key] = from[key];
            LET from == fr.vars[stmt.from]
            IN  [fr EXCEPT !.jsonDict =
                    [key \in DOMAIN fr.jsonDict \cup DOMAIN from |->
                        IF key \in DOMAIN from THEN from[key]
                        ELSE fr.jsonDict[key]]]
      [] stmt.s = "assign_tag" ->
            [fr EXCEPT !.self.tag =
                EnumValue(ClassOf(prog, fr.self.class).enum, stmt.const)]
      [] stmt.s = "assign_ivar" ->
            With(Eval(prog, stmt.value, fr, env), LAMBDA x :
                IF ~x.ok THEN Thrown(fr, x.exc)
                ELSE [fr EXCEPT !.self.ivars[stmt.ivar] = x.v])
      [] stmt.s = "local" ->
            With(Eval(prog, stmt.value, fr, env), LAMBDA x :
                IF ~x.ok THEN Thrown(fr, x.exc)
                ELSE [fr EXCEPT !.vars = DictPut(fr.vars, stmt.name, x.v)])
      [] stmt.s = "put" ->
            With(Eval(prog, stmt.value, fr, env), LAMBDA x :
                IF ~x.ok THEN Thrown(fr, x.exc)
                ELSE IF x.v = Nil
                THEN \* jsonDict[key] = nil: the entry is left out, or the
                     \* store raises, by the Foundation version.
                     IF env.nilStore = "raise"
                     THEN Thrown(fr, Exc("NSInvalidArgumentException"))
                     ELSE fr
                ELSE [fr EXCEPT !.jsonDict = DictPut(fr.jsonDict, stmt.key, x.v)])
      [] stmt.s = "throw" -> Thrown(fr, Exc(stmt.name))
      [] stmt.s = "raise" ->
            With(Eval(prog, stmt.actual, fr, env), LAMBDA x :
                IF ~x.ok THEN Thrown(fr, x.exc)
                ELSE Thrown(fr, [name |-> stmt.name, required |-> stmt.required,
                                 actual |-> x.v.s]))
      [] stmt.s = "return" ->
            With(Eval(prog, stmt.value, fr, env), LAMBDA x :
                IF ~x.ok THEN Thrown(fr, x.exc)
                ELSE [fr EXCEPT !.status = "return", !.ret = x.v])
      [] stmt.s = "if" ->
            With(Eval(prog, stmt.cond, fr, env), LAMBDA x :
                IF ~x.ok THEN Thrown(fr, x.exc)
                ELSE IF x.v THEN Exec(prog, stmt.body, 1, fr, env)
                ELSE fr)

\* A statement list from the i-th statement on, in order, until one
\* returns or throws.
Exec(prog, stmts, i, fr, env) ==
    IF i > Len(stmts) THEN fr
    ELSE With(Step(prog, stmts[i], fr, env), LAMBDA next :
            IF next.status # "run" THEN next
            ELSE Exec(prog, stmts, i + 1, next, env))

\* ------------------------------------------------------------------ unions: the schemas

VariantNames == <<<<"x">>, <<"y">>, <<"file", "meta">>, <<"z">>, <<"w">>>>

\* A variant carries a number, nothing, or a nullable number.
VariantTypes == <<Int32(None, None), Void, Nullable(Int32(None, None))>>

\* The union of n variants whose types start at the r-th of VariantTypes.
UnionSchema(n, r) ==
    [kind |-> "Union",
     name |-> <<"shape">>,
     all_fields |->
        [i \in 1..n |->
            [name |-> VariantNames[i],
             data_type |-> VariantTypes[((i + r) % Len(VariantTypes)) + 1]]]]

UnionSchemas ==
    {UnionSchema(n, r) : n \in 1..MaxVariants, r \in 1..Len(VariantTypes)}

\* The class emitted for the union.
UnionClass == code[1]

Variants == 1..Len(schema.all_fields)

\* What a caller may pass for a payload of the given type.
PayloadInputs(data_type) ==
    IF unwrap_nullable(data_type)[2]
    THEN Numbers \cup {Nil, NSNull}
    ELSE Numbers

\* What running the emitted code may depend on beyond its arguments.
Envs == {[nilStore |-> o, stack |-> {}] : o \in {"omit", "raise"}}
Env0 == [nilStore |-> "omit", stack |-> {}]

NoCall == [name |-> "none", variant |-> 0, arg |-> Nil]
Call(name, variant, arg) == [name |-> name, variant |-> variant, arg |-> arg]
NoResult == [raised |-> NoExc, ret |-> Nil]
Result(r) == [raised |-> r.exc, ret |-> r.v]

\* ------------------------------------------------------------------ unions: the operations

UnionInit ==
    /\ schema \in UnionSchemas
    /\ code = _generate_namespace_types(<<schema>>)
    /\ obj = NoObj
    /\ wire = EmptyDict
    /\ call = NoCall
    /\ result = NoResult

\* [[Shape alloc] initWith<Variant>:arg]
NewUnion(i, arg) ==
    Construct(code, UnionClass, UnionClass.cstors[i],
              IF Len(UnionClass.cstors[i].params) = 0 THEN << >> ELSE <<arg>>,
              Env0)

New(i, arg) ==
    /\ \E r \in {NewUnion(i, arg)} :
          /\ obj' = r.v
          /\ result' = [raised |-> r.exc, ret |-> Nil]
    /\ call' = Call("new", i, arg)
    /\ UNCHANGED <<schema, code, wire>>

\* A property is readwrite unless its attribute list says readonly.
HasSetter(property) == "readonly" \notin property.attrs

PropertyOf(class, name) ==
    class.properties[CHOOSE i \in 1..Len(class.properties) :
                        class.properties[i].name = name]

\* instance.tag = t, the synthesized setter of the tag property.
SetTag(t) ==
    /\ obj # NoObj
    /\ HasSetter(PropertyOf(UnionClass, "tag"))
    /\ obj' = [obj EXCEPT !.tag = t]
    /\ call' = Call("setTag", 0, Num(t))
    /\ result' = NoResult
    /\ UNCHANGED <<schema, code, wire>>

\* instance.<variant> = value, the synthesized setter of a payload property.
SetPayload(i, value) ==
    LET name == fmt_var(schema.all_fields[i].name)
    IN  /\ obj # NoObj
        /\ name \in DOMAIN obj.ivars
        /\ HasSetter(PropertyOf(UnionClass, name))
        /\ obj' = [obj EXCEPT !.ivars[name] = value]
        /\ call' = Call("setPayload", i, value)
        /\ result' = NoResult
        /\ UNCHANGED <<schema, code, wire>>

\* [instance is<Variant>]
IsTag(i) ==
    /\ obj # NoObj
    /\ call' = Call("is", i, Nil)
    /\ result' = Result(Invoke(code, UnionClass.methods[i], obj, << >>, Env0))
    /\ UNCHANGED <<schema, code, obj, wire>>

\* [instance getTagName]
GetTagName ==
    /\ obj # NoObj
    /\ call' = Call("getTagName", 0, Nil)
    /\ result' = Result(Invoke(code,
                               MethodOf(UnionClass.methods, "getTagName"),
                               obj, << >>, Env0))
    /\ UNCHANGED <<schema, code, obj, wire>>

\* instance.<variant>, for a variant the class has an accessor for.
Access(i) ==
    LET selector == fmt_camel(schema.all_fields[i].name, FALSE)
    IN  /\ obj # NoObj
        /\ HasMethod(UnionClass, selector)
        /\ call' = Call("access", i, Nil)
        /\ result' = Result(Invoke(code,
                                   MethodOf(UnionClass.methods, selector),
                                   obj, << >>, Env0))
        /\ UNCHANGED <<schema, code, obj, wire>>

\* [ShapeSerializer serialize:instance]; the dictionary it returns goes on
\* the wire.
Serialize(env) ==
    /\ obj # NoObj
    /\ call' = Call("serialize", 0, Nil)
    /\ \E r \in {Invoke(code, UnionClass.serializer[1], NoObj, <<obj>>, env)} :
          /\ result' = Result(r)
          /\ wire' = IF r.ok THEN r.v ELSE wire
    /\ UNCHANGED <<schema, code, obj>>

\* [ShapeSerializer deserialize:[ShapeSerializer serialize:instance]]
RoundTripOf(instance, env) ==
    LET dict == Invoke(code, UnionClass.serializer[1], NoObj,
                       <<instance>>, env)
    IN  IF ~dict.ok THEN dict
        ELSE Invoke(code, UnionClass.serializer[2], NoObj, <<dict.v>>, env)

RoundTrip(env) ==
    /\ obj # NoObj
    /\ call' = Call("roundTrip", 0, Nil)
    /\ result' = Result(RoundTripOf(obj, env))
    /\ UNCHANGED <<schema, code, obj, wire>>

UnionNext ==
    \/ \E i \in Variants :
          \E arg \in PayloadInputs(schema.all_fields[i].data_type) : New(i, arg)
    \/ \E t \in 0..(Len(schema.all_fields) - 1) : SetTag(t)
    \/ \E i \in Variants :
          \E value \in PayloadInputs(schema.all_fields[i].data_type) :
             SetPayload(i, value)
    \/ \E i \in Variants : IsTag(i)
    \/ GetTagName
    \/ \E i \in Variants : Access(i)
    \/ \E env \in Envs : Serialize(env)
    \/ \E env \in Envs : RoundTrip(env)

SpecUnion == UnionInit /\ [][UnionNext]_vars

\* ------------------------------------------------------------------ unions: deserialize

\* The tag strings a dictionary of the model may hold: the variants' names
\* and one that no variant has.
TagStrings == {RawName(schema.all_fields[i].name) : i \in Variants} \cup {"c"}

\* The entries a sender may put into the dictionary on the wire: a ".tag"
\* or a "tag" entry, and a payload entry under a variant's name.
WireEntries ==
    ({".tag", "tag"} \X {Str(t) : t \in TagStrings})
    \cup ({RawName(schema.all_fields[i].name) : i \in Variants} \X Numbers)

WireSet(key, value) ==
    /\ key \notin DOMAIN wire
    /\ wire' = DictPut(wire, key, value)
    /\ call' = Call("wireSet", 0, Nil)
    /\ result' = NoResult
    /\ UNCHANGED <<schema, code, obj>>

\* [ShapeSerializer deserialize:wire]
Deserialize ==
    /\ call' = Call("deserialize", 0, Nil)
    /\ result' = Result(Invoke(code, UnionClass.serializer[2], NoObj,
                               <<wire>>, Env0))
    /\ UNCHANGED <<schema, code, obj, wire>>

DeserializeNext ==
    \/ \E entry \in WireEntries : WireSet(entry[1], entry[2])
    \/ Deserialize

SpecUnionDeserialize == UnionInit /\ [][DeserializeNext]_vars

\* ------------------------------------------------------------------ structs: the schemas

Field(name, data_type) ==
    [name |-> name, data_type |-> data_type, has_default |-> FALSE,
     default |-> PyNone]

SubtypeNames == <<<<"file">>, <<"folder">>, <<"shape">>>>
SubtypeTags == <<<<"file">>, <<"folder", "meta">>, <<"shape">>>>
SubtypeFields ==
    <<Field(<<"size">>, Int32(None, None)),
      Field(<<"count">>, Nullable(Int32(None, None))),
      Field(<<"w">>, Int32(None, None))>>

RootFields == <<Field(<<"id">>, Int32(None, None))>>

\* The i-th subtype of the hierarchy: the root's fields, then its own.
SubStruct(i) ==
    [kind |-> "Struct", name |-> SubtypeNames[i], supertype |-> <<"root">>,
     fields |-> <<SubtypeFields[i]>>,
     all_fields |-> RootFields \o <<SubtypeFields[i]>>,
     subtypes |-> << >>]

\* The struct that roots a hierarchy of n enumerated subtypes; with n = 0
\* it is a plain struct.
RootStruct(n) ==
    [kind |-> "Struct", name |-> <<"root">>, supertype |-> << >>,
     fields |-> RootFields,
     all_fields |-> RootFields,
     subtypes |-> [i \in 1..n |->
                     [tag |-> SubtypeTags[i], data_type |-> SubStruct(i)]]]

\* A union of the namespace that a struct field may have as its type.
FieldUnion == UnionSchema(2, 2)

\* A plain struct with a number and a union among its fields.
HolderStruct ==
    [kind |-> "Struct", name |-> <<"meta">>, supertype |-> << >>,
     fields |-> <<Field(<<"file", "meta">>, Int32(None, None)),
                  Field(<<"shape">>, FieldUnion)>>,
     all_fields |-> <<Field(<<"file", "meta">>, Int32(None, None)),
                      Field(<<"shape">>, FieldUnion)>>,
     subtypes |-> << >>]

\* A plain struct of numbers, whose field names differ from the identifiers
\* made of them.
KeyedStruct ==
    [kind |-> "Struct", name |-> <<"folder", "meta">>, supertype |-> << >>,
     fields |-> <<Field(<<"file", "meta">>, Int32(None, None)),
                  Field(<<"id">>, Int32(None, None))>>,
     all_fields |-> <<Field(<<"file", "meta">>, Int32(None, None)),
                      Field(<<"id">>, Int32(None, None))>>,
     subtypes |-> << >>]

HierarchySchemas ==
    {RootStruct(n) : n \in 0..MaxSubtypes} \cup {HolderStruct, KeyedStruct}

\* The user-defined types the fields of a struct have.
FieldTypesOf(struct) ==
    Flatten([i \in 1..Len(struct.all_fields) |->
        LET dt == unwrap_nullable(struct.all_fields[i].data_type)[1]
        IN  IF is_user_defined_type(dt) THEN <<dt>> ELSE << >>])

\* The data types of the namespace of a root struct: the struct, its
\* subtypes, the types of its fields.  Classes are found by name.
NamespaceOf(root) ==
    <<root>> \o [i \in 1..Len(root.subtypes) |-> root.subtypes[i].data_type]
    \o FieldTypesOf(root)

\* A struct with one numeric field.
RangeStruct(min_value, max_value) ==
    [kind |-> "Struct", name |-> <<"shape">>, supertype |-> << >>,
     fields |-> <<Field(<<"size">>, Int32(min_value, max_value))>>,
     all_fields |-> <<Field(<<"size">>, Int32(min_value, max_value))>>,
     subtypes |-> << >>]

Constraints == {None} \cup {Some(v) : v \in (0 - MaxBound)..MaxBound}

\* The schema parser rejects a range whose minimum is above its maximum.
RangeSchemas ==
    {RangeStruct(range[1], range[2]) :
        range \in {r \in Constraints \X Constraints :
                      (r[1].set /\ r[2].set) => r[1].v <= r[2].v}}

\* The struct types of the namespace: index 0 is the root.
Structs == 0..Len(schema.subtypes)
StructType(k) == IF k = 0 THEN schema ELSE schema.subtypes[k].data_type
StructClass(k) == code[k + 1]

\* What a caller may pass for a field of the given type.
\* The instances of a union its per-variant constructors return.
UnionInputs(union) ==
    LET class == ClassOf(code, fmt_class(union.name))
    IN  UNION {{Construct(code, class, class.cstors[i],
                          IF Len(class.cstors[i].params) = 0 THEN << >>
                          ELSE <<arg>>, Env0).v :
                    arg \in PayloadInputs(union.all_fields[i].data_type)} :
               i \in 1..Len(union.all_fields)}

FieldInputs(data_type, numbers) ==
    LET dt == unwrap_nullable(data_type)[1]
        values == IF dt.kind = "Union" THEN UnionInputs(dt)
                  ELSE IF dt.kind = "String" THEN {Str("a"), Str("b")}
                  ELSE IF dt.kind = "List" THEN {Arr(<< >>), Arr(<<Num(1)>>)}
                  ELSE numbers
    IN  IF unwrap_nullable(data_type)[2] THEN values \cup {Nil} ELSE values

\* The argument lists of the standard constructor of a struct.
CstorInputs(struct, numbers) ==
    {args \in [1..Len(struct.all_fields) ->
                  UNION {FieldInputs(struct.all_fields[i].data_type, numbers) :
                            i \in 1..Len(struct.all_fields)}] :
        \A i \in 1..Len(struct.all_fields) :
            args[i] \in FieldInputs(struct.all_fields[i].data_type, numbers)}

BoundInputs == {Num(n) : n \in (0 - (MaxBound + 1))..(MaxBound + 1)}

\* ------------------------------------------------------------------ structs: the operations

StructInit ==
    /\ schema \in HierarchySchemas
    /\ code = _generate_namespace_types(NamespaceOf(schema))
    /\ obj = NoObj
    /\ wire = EmptyDict
    /\ call = NoCall
    /\ result = NoResult

ValidatorInit ==
    /\ schema \in RangeSchemas
    /\ code = _generate_namespace_types(NamespaceOf(schema))
    /\ obj = NoObj
    /\ wire = EmptyDict
    /\ call = NoCall
    /\ result = NoResult

\* [[<Struct k> alloc] initWith...:args], the standard constructor.
NewStruct(k, args) ==
    /\ \E r \in {Construct(code, StructClass(k), StructClass(k).cstors[1],
                           args, Env0)} :
          /\ obj' = IF r.ok THEN r.v ELSE NoObj
          /\ result' = [raised |-> r.exc, ret |-> Nil]
    /\ call' = Call("new", k, args)
    /\ UNCHANGED <<schema, code, wire>>

\* The struct types an instance may be held as: its own and its supertype.
StaticTypes(instance) ==
    {k \in Structs : StructClass(k).name = instance.class} \cup {0}

\* [<Struct k>Serializer serialize:instance]
SerializeStruct(k, env) ==
    /\ obj # NoObj
    /\ k \in StaticTypes(obj)
    /\ call' = Call("serialize", k, Nil)
    /\ \E r \in {SerializerCall(code, StructClass(k).name, "serialize",
                                <<obj>>, env)} :
          /\ result' = Result(r)
          /\ wire' = IF r.ok THEN r.v ELSE wire
    /\ UNCHANGED <<schema, code, obj>>

\* [<Struct k>Serializer deserialize:[<Struct k>Serializer serialize:instance]]
RoundTripStructOf(k, instance, env) ==
    LET dict == SerializerCall(code, StructClass(k).name, "serialize",
                               <<instance>>, env)
    IN  IF ~dict.ok THEN dict
        ELSE SerializerCall(code, StructClass(k).name, "deserialize",
                            <<dict.v>>, env)

RoundTripStruct(k, env) ==
    /\ obj # NoObj
    /\ k \in StaticTypes(obj)
    /\ call' = Call("roundTrip", k, Nil)
    /\ result' = Result(RoundTripStructOf(k, obj, env))
    /\ UNCHANGED <<schema, code, obj, wire>>

\* [<Struct k>Serializer deserialize:wire], of the dictionary a serialize
\* call left on the wire.
DeserializeStructOfWire(k) ==
    /\ wire # EmptyDict
    /\ call' = Call("deserialize", k, Nil)
    /\ result' = Result(SerializerCall(code, StructClass(k).name,
                                       "deserialize", <<wire>>, Env0))
    /\ UNCHANGED <<schema, code, obj, wire>>

StructNext ==
    \/ \E k \in Structs :
          \E args \in CstorInputs(StructType(k), Numbers) : NewStruct(k, args)
    \/ \E k \in Structs : \E env \in Envs : SerializeStruct(k, env)
    \/ \E k \in Structs : \E env \in Envs : RoundTripStruct(k, env)
    \/ \E k \in Structs : DeserializeStructOfWire(k)

SpecStruct == StructInit /\ [][StructNext]_vars

ValidatorNext ==
    \/ \E args \in CstorInputs(schema, BoundInputs) : NewStruct(0, args)
    \/ \E env \in Envs : SerializeStruct(0, env)

SpecValidator == ValidatorInit /\ [][ValidatorNext]_vars

\* ------------------------------------------------------------------ structs: deserialize

\* The tag strings a dictionary of the model may hold: the subtypes' tags
\* as the schema spells them and as fmt_var does, and one no subtype has.
StructTagStrings ==
    {RawName(schema.subtypes[i].tag) : i \in 1..Len(schema.subtypes)}
    \cup {fmt_var(schema.subtypes[i].tag) : i \in 1..Len(schema.subtypes)}
    \cup {"c"}

AllFieldNames ==
    UNION {{RawName(StructType(k).all_fields[i].name) :
                i \in 1..Len(StructType(k).all_fields)} : k \in Structs}

StructWireEntries ==
    ({".tag", "tag"} \X {Str(t) : t \in StructTagStrings})
    \cup (AllFieldNames \X Numbers)

\* [<Struct k>Serializer deserialize:wire]
DeserializeStruct(k) ==
    /\ call' = Call("deserialize", k, Nil)
    /\ result' = Result(SerializerCall(code, StructClass(k).name,
                                       "deserialize", <<wire>>, Env0))
    /\ UNCHANGED <<schema, code, obj, wire>>

StructDeserializeNext ==
    \/ \E entry \in StructWireEntries : WireSet(entry[1], entry[2])
    \/ \E k \in Structs : DeserializeStruct(k)

SpecStructDeserialize == StructInit /\ [][StructDeserializeNext]_vars

\* ------------------------------------------------------------------ unions: the properties

\* The variant a stored tag stands for.
ActiveVariant(instance) == instance.tag + 1
ActiveField(instance) == schema.all_fields[ActiveVariant(instance)]

\* The payload of the active variant: nil for a void variant.
ActivePayload(instance) ==
    IF is_void_type(ActiveField(instance).data_type) THEN Nil
    ELSE instance.ivars[fmt_var(ActiveField(instance).name)]

\* The instance is as one of the per-variant constructors returned it.
BuiltByConstructor ==
    \E i \in Variants :
        \E arg \in PayloadInputs(schema.all_fields[i].data_type) :
            obj = NewUnion(i, arg).v

\* C1: for every instance x built by a per-variant constructor,
\* deserialize(serialize(x)) returns an instance with x's active tag and
\* x's payload.
C1_UnionRoundTrip ==
    (call.name = "roundTrip" /\ BuiltByConstructor)
    => /\ result.raised = NoExc
       /\ result.ret.tag = obj.tag
       /\ ActivePayload(result.ret) = ActivePayload(obj)

\* C2: serialize returns normally for every instance built by a variant
\* constructor, and the dictionary it returns holds the ".tag" entry of
\* the first variant whose predicate is true; the invalid-tag error is
\* raised only when no predicate is true.
C2_UnionSerializeReturns ==
    (call.name = "serialize" /\ BuiltByConstructor)
    => /\ result.raised = NoExc
       /\ ".tag" \in DOMAIN result.ret
       /\ result.ret[".tag"] = Str(RawName(ActiveField(obj).name))

\* ------------------------------------------------------------------ structs: the properties

\* The subtype, if any, whose class an instance has.
IsSubtypeInstance(instance, k) ==
    k \in 1..Len(schema.subtypes) /\ instance.class = StructClass(k).name

\* C3: in a hierarchy rooted at a struct, serializing an instance whose
\* runtime class is the subtype A returns a flat dictionary that holds A's
\* fields and a ".tag" entry equal to A's tag, and deserialize given that
\* dictionary dispatches to A.
C3_SubtypeSerializeWritesTag ==
    \A k \in 1..Len(schema.subtypes) :
        (call.name = "serialize" /\ IsSubtypeInstance(obj, k))
        => LET struct == StructType(k)
           IN  /\ result.raised = NoExc
               /\ \A i \in 1..Len(struct.all_fields) :
                     LET field == struct.all_fields[i]
                         value == obj.ivars[fmt_var(field.name)]
                     IN  value # Nil
                         => DictGet(result.ret, RawName(field.name)) = value
               /\ DictGet(result.ret, ".tag")
                    \in {Str(RawName(schema.subtypes[k].tag)),
                         Str(fmt_var(schema.subtypes[k].tag))}
               /\ LET back == SerializerCall(code, StructClass(0).name,
                                             "deserialize", <<result.ret>>, Env0)
                  IN  back.ok /\ back.v.class = StructClass(k).name

\* The first subtype, in declaration order, whose tag is the string.
FirstSubtypeTagged(string) ==
    CHOOSE k \in 1..Len(schema.subtypes) :
        /\ RawName(schema.subtypes[k].tag) = string
        /\ \A j \in 1..(k - 1) : RawName(schema.subtypes[j].tag) # string

\* C4: deserialize of a polymorphic root, given a dictionary whose ".tag"
\* entry is a declared subtype's tag, returns what that subtype's
\* deserializer returns; given a dictionary whose ".tag" is no declared
\* subtype's tag, it fails with the invalid-tag error.
C4_RootDeserializeDispatchesOnDotTag ==
    (call.name = "deserialize" /\ call.variant = 0
     /\ has_enumerated_subtypes(schema) /\ ".tag" \in DOMAIN wire)
    => IF \E k \in 1..Len(schema.subtypes) :
             wire[".tag"] = Str(RawName(schema.subtypes[k].tag))
       THEN LET k == FirstSubtypeTagged(wire[".tag"].s)
            IN  result = Result(SerializerCall(code, StructClass(k).name,
                                               "deserialize", <<wire>>, Env0))
       ELSE result.raised.name = "InvalidTagEnum"

\* ------------------------------------------------------------------ unions: the properties, continued

\* The first variant, in declaration order, whose name is the string.
FirstVariantNamed(string) ==
    CHOOSE i \in Variants :
        /\ RawName(schema.all_fields[i].name) = string
        /\ \A j \in 1..(i - 1) : RawName(schema.all_fields[j].name) # string

\* C5: deserialize reads the tag from the dictionary's ".tag" entry; when
\* it is a variant's name the result is an instance of that variant, with
\* the payload deserialized from the variant's entry when the variant is
\* not void; when the entry is missing or names no variant, deserialize
\* fails with the invalid-tag error.
C5_UnionDeserializeReadsDotTag ==
    call.name = "deserialize"
    => IF /\ ".tag" \in DOMAIN wire
          /\ \E i \in Variants :
                wire[".tag"] = Str(RawName(schema.all_fields[i].name))
       THEN LET i == FirstVariantNamed(wire[".tag"].s)
                field == schema.all_fields[i]
            IN  /\ result.raised = NoExc
                /\ ActiveVariant(result.ret) = i
                /\ ~is_void_type(field.data_type)
                   => ActivePayload(result.ret) =
                        PrimitiveSerializer(fmt_serial_obj(field.data_type),
                                            "deserialize",
                                            DictGet(wire, RawName(field.name)))
       ELSE result.raised.name = "InvalidTagEnum"

\* C6: the active tag of a union instance never changes after its
\* construction: every step that does not build a new instance leaves the
\* tag as it was.
C6_UnionTagNeverChanges ==
    [][(obj # NoObj /\ call'.name # "new") => obj'.tag = obj.tag]_vars

\* C7: getTagName on an instance whose active tag is V returns V's
\* declared name.
C7_UnionTagNameIsDeclaredName ==
    call.name = "getTagName"
    => /\ result.raised = NoExc
       /\ result.ret \in {Str(RawName(ActiveField(obj).name)),
                          Str(fmt_camel_upper(ActiveField(obj).name)),
                          Str(fmt_var(ActiveField(obj).name))}

\* What [instance is<Variant i>] answers.
IsAnswer(instance, i) ==
    Invoke(code, UnionClass.methods[i], instance, << >>, Env0).v

\* C8: in every state of a union instance exactly one tag-state predicate
\* is true, and after the constructor of variant X it is isX.
C8_UnionExactlyOnePredicate ==
    obj # NoObj
    => /\ Cardinality({i \in Variants : IsAnswer(obj, i)}) = 1
       /\ call.name = "new"
          => \A i \in Variants : IsAnswer(obj, i) <=> (i = call.variant)
       /\ call.name = "is" => result.ret = (call.variant = ActiveVariant(obj))

\* A second variant was built and another variant's predicate answered NO.
C8_Witness ==
    /\ call.name = "is"
    /\ ActiveVariant(obj) = 2
    /\ call.variant # 2
    /\ result.ret = FALSE

\* The text the accessor's error gives for a variant's tag.
EnumFullValue(i) == "(" \o UnionClass.name \o "Tag)" \o UnionClass.enum[i]

\* C9: the data accessor of a non-void variant V raises an illegal-state
\* error naming the required and the actual tag when the active tag is not
\* V, and returns V's backing field when it is; void variants have no
\* accessor.
C9_UnionGuardedAccessor ==
    /\ call.name = "access"
       => IF ActiveVariant(obj) # call.variant
          THEN /\ result.raised.name = "IllegalStateException"
               /\ result.raised.required = EnumFullValue(call.variant)
               /\ result.raised.actual = EnumFullValue(ActiveVariant(obj))
               /\ result.ret = Nil
          ELSE /\ result.raised = NoExc
               /\ result.ret = obj.ivars[fmt_var(schema.all_fields[call.variant].name)]
    /\ \A i \in Variants :
          HasMethod(UnionClass, fmt_camel(schema.all_fields[i].name, FALSE))
          <=> ~is_void_type(schema.all_fields[i].data_type)

\* The accessor of one variant was called while another was active, and
\* the accessor of the active variant returned a payload.
C9_Witness ==
    /\ call.name = "access"
    /\ ActiveVariant(obj) # call.variant
    /\ result.raised.name = "IllegalStateException"
    /\ \E i \in Variants : is_void_type(schema.all_fields[i].data_type)

\* ------------------------------------------------------------------ validators: the properties

\* C10: for a numeric field with min_value = m, of any sign and 0 included,
\* the standard constructor fails with a constraint violation for every
\* value below m, and returns an instance holding the value for every value
\* that is at least m and at most max_value when max_value is set.
C10_MinValueEnforced ==
    LET data_type == schema.all_fields[1].data_type
    IN  (call.name = "new" /\ data_type.kind = "Int32" /\ data_type.min_value.set)
        => LET value == call.arg[1].n
               m == data_type.min_value.v
           IN  /\ value < m => result.raised.name = "IllegalArgumentException"
               /\ (value >= m /\ (data_type.max_value.set
                                    => value <= data_type.max_value.v))
                  => /\ result.raised = NoExc
                     /\ obj.ivars["size"] = call.arg[1]

\* ------------------------------------------------------------------ structs: the properties, continued

\* C11: for every struct that roots no hierarchy and every instance x its
\* standard constructor returned, deserialize(serialize(x)) returns an
\* instance of x's class with every field of all_fields equal to x's.
C11_StructRoundTrip ==
    (/\ call.name = "roundTrip"
     /\ ~has_enumerated_subtypes(StructType(call.variant))
     /\ obj.class = StructClass(call.variant).name)
    => /\ result.raised = NoExc
       /\ result.ret.class = obj.class
       /\ \A i \in 1..Len(StructType(call.variant).all_fields) :
             LET name == fmt_var(StructType(call.variant).all_fields[i].name)
             IN  result.ret.ivars[name] = obj.ivars[name]

\* ------------------------------------------------------------------ unions: the wire shape

\* C12: the dictionary union serialize returns for an instance built by a
\* variant constructor holds one ".tag" entry with the active variant's
\* schema name and at most one other entry, keyed by that name; it holds no
\* payload entry when the active variant is void.
C12_UnionWireShape ==
    (call.name = "serialize" /\ schema.kind = "Union" /\ BuiltByConstructor)
    => /\ result.raised = NoExc
       /\ LET field == ActiveField(obj)
              name == Join(field.name, "_")
          IN  /\ DictGet(result.ret, ".tag") = Str(name)
              /\ DOMAIN result.ret \subseteq {".tag", name}
              /\ is_void_type(field.data_type) => DOMAIN result.ret = {".tag"}

\* ------------------------------------------------------------------ structs: nullable fields

\* The nullable fields of a struct.
NullableFields(struct) ==
    {i \in 1..Len(struct.all_fields) :
        unwrap_nullable(struct.all_fields[i].data_type)[2]}

\* C13: for a struct with a nullable field f, whose serializer builds its
\* instances itself: serializing an instance whose f is nil returns a
\* dictionary with no entry under f's key, and deserializing a dictionary
\* with no entry under f's key returns an instance whose f is nil.
C13_NullableOmitted ==
    \A k \in Structs :
        \A i \in NullableFields(StructType(k)) :
            LET field == StructType(k).all_fields[i]
                key == Join(field.name, "_")
            IN  (call.variant = k /\ ~has_enumerated_subtypes(StructType(k)))
                => /\ (/\ call.name = "serialize"
                       /\ obj.class = StructClass(k).name
                       /\ obj.ivars[fmt_var(field.name)] = Nil)
                      => /\ result.raised = NoExc
                         /\ key \notin DOMAIN result.ret
                   /\ (call.name = "deserialize" /\ key \notin DOMAIN wire)
                      => /\ result.raised = NoExc
                         /\ result.ret.ivars[fmt_var(field.name)] = Nil

\* A dictionary serialized from an instance without its nullable field was
\* deserialized by the struct's own serializer.
C13_Witness ==
    \E k \in Structs :
        \E i \in NullableFields(StructType(k)) :
            /\ call.name = "deserialize" /\ call.variant = k
            /\ ~has_enumerated_subtypes(StructType(k))
            /\ wire # EmptyDict
            /\ Join(StructType(k).all_fields[i].name, "_") \notin DOMAIN wire
            /\ result.raised = NoExc
            /\ result.ret.class = StructClass(k).name

\* ------------------------------------------------------------------ structs with defaulted fields

DefaultField(name, data_type, default) ==
    [name |-> name, data_type |-> data_type, has_default |-> TRUE,
     default |-> default]

\* The fields of a struct with a number and a defaulted, constrained number.
DefaultRootFields(min_value, max_value, default) ==
    <<Field(<<"id">>, Int32(None, None)),
      DefaultField(<<"size">>, Int32(min_value, max_value), PyInt(default))>>

\* The subtype that inherits the defaulted field.
DefaultSubStruct(min_value, max_value, default) ==
    [kind |-> "Struct", name |-> <<"file">>, supertype |-> <<"root">>,
     fields |-> <<Field(<<"count">>, Int32(None, None))>>,
     all_fields |-> DefaultRootFields(min_value, max_value, default)
                    \o <<Field(<<"count">>, Int32(None, None))>>,
     subtypes |-> << >>]

DefaultRootStruct(min_value, max_value, default) ==
    [kind |-> "Struct", name |-> <<"root">>, supertype |-> << >>,
     fields |-> DefaultRootFields(min_value, max_value, default),
     all_fields |-> DefaultRootFields(min_value, max_value, default),
     subtypes |-> <<[tag |-> <<"file">>,
                     data_type |-> DefaultSubStruct(min_value, max_value,
                                                    default)]>>]

\* The schema parser checks a default against the constraints of its type.
DefaultSchemas ==
    {DefaultRootStruct(c[1], c[2], c[3]) :
        c \in {r \in Constraints \X Constraints \X ((0 - MaxBound)..MaxBound) :
                 /\ (r[1].set /\ r[2].set) => r[1].v <= r[2].v
                 /\ r[1].set => r[1].v <= r[3]
                 /\ r[2].set => r[3] <= r[2].v}}

DefaultsInit ==
    /\ schema \in DefaultSchemas
    /\ code = _generate_namespace_types(NamespaceOf(schema))
    /\ obj = NoObj
    /\ wire = EmptyDict
    /\ call = NoCall
    /\ result = NoResult

\* The argument lists of the standard constructor, nil allowed for a
\* defaulted field.
StandardInputs(struct) ==
    {args \in [1..Len(struct.all_fields) ->
                  UNION {FieldInputs(struct.all_fields[i].data_type, Numbers) :
                            i \in 1..Len(struct.all_fields)} \cup {Nil}] :
        \A i \in 1..Len(struct.all_fields) :
            \/ args[i] \in FieldInputs(struct.all_fields[i].data_type, Numbers)
            \/ struct.all_fields[i].has_default /\ args[i] = Nil}

\* The struct whose fields are the fields without a default.
WithoutDefaults(struct) ==
    [struct EXCEPT !.all_fields =
        SelectSeq(struct.all_fields, LAMBDA f : ~f.has_default)]

\* [[<Struct k> alloc] initWith...:args], the convenience constructor.
NewStructDefault(k, args) ==
    /\ Len(StructClass(k).cstors) = 2
    /\ \E r \in {Construct(code, StructClass(k), StructClass(k).cstors[2],
                           args, Env0)} :
          /\ obj' = IF r.ok THEN r.v ELSE NoObj
          /\ result' = [raised |-> r.exc, ret |-> Nil]
    /\ call' = Call("newDefault", k, args)
    /\ UNCHANGED <<schema, code, wire>>

DefaultsNext ==
    \/ \E k \in Structs :
          \E args \in StandardInputs(StructType(k)) : NewStruct(k, args)
    \/ \E k \in Structs :
          \E args \in CstorInputs(WithoutDefaults(StructType(k)), Numbers) :
             NewStructDefault(k, args)

SpecDefaults == DefaultsInit /\ [][DefaultsNext]_vars

\* The arguments of the standard constructor that stand for the arguments
\* of the convenience constructor: every defaulted field is given its
\* default.
WithDefaults(struct, args) ==
    [i \in 1..Len(struct.all_fields) |->
        IF struct.all_fields[i].has_default
        THEN Num(struct.all_fields[i].default.n)
        ELSE args[Cardinality({j \in 1..i : ~struct.all_fields[j].has_default})]]

\* C14: the convenience constructor, called with the values of the fields
\* without a default, returns what the standard constructor returns for
\* the same values and each defaulted field set to its default, also when
\* the defaulted field has a validator and when it is inherited.
C14_ConvenienceEqualsStandard ==
    call.name = "newDefault"
    => LET struct == StructType(call.variant)
           class == StructClass(call.variant)
           standard == Construct(code, class, class.cstors[1],
                                 WithDefaults(struct, call.arg), Env0)
       IN  /\ result.raised = standard.exc
           /\ obj = IF standard.ok THEN standard.v ELSE NoObj

\* ------------------------------------------------------------------ lists: the operations

MaxItems == 2

\* A struct with one list field.
ListStruct(data_type, min_items, max_items) ==
    [kind |-> "Struct", name |-> <<"folder">>, supertype |-> << >>,
     fields |-> <<Field(<<"a">>, List(data_type, min_items, max_items))>>,
     all_fields |-> <<Field(<<"a">>, List(data_type, min_items, max_items))>>,
     subtypes |-> << >>]

\* The element types: a numeric type with at least one end of its range set.
ElementTypes ==
    {Int32(range[1], range[2]) :
        range \in {r \in Constraints \X Constraints :
                      /\ r[1].set \/ r[2].set
                      /\ (r[1].set /\ r[2].set) => r[1].v <= r[2].v}}

\* The schema parser accepts min_items from 0 and max_items from 1, with
\* min_items at most max_items.
ListSchemas ==
    {ListStruct(data_type, Some(items[1]), Some(items[2])) :
        data_type \in ElementTypes,
        items \in {c \in (0..MaxItems) \X (1..MaxItems) : c[1] <= c[2]}}

ListElements == {Num(0 - 1), Num(1)}

\* The arrays a caller may pass: up to one item more than any max_items.
ListInputs ==
    {Arr(items) :
        items \in UNION {[1..n -> ListElements] : n \in 0..(MaxItems + 1)}}

ListInit ==
    /\ schema \in ListSchemas
    /\ code = _generate_namespace_types(NamespaceOf(schema))
    /\ obj = NoObj
    /\ wire = EmptyDict
    /\ call = NoCall
    /\ result = NoResult

ListNext == \E list \in ListInputs : NewStruct(0, <<list>>)

SpecListValidator == ListInit /\ [][ListNext]_vars

\* ------------------------------------------------------------------ lists: the properties

\* The value is outside the range of the numeric type.
OutOfRange(data_type, value) ==
    \/ data_type.min_value.set /\ value.n < data_type.min_value.v
    \/ data_type.max_value.set /\ value.n > data_type.max_value.v

\* C15: for a list field with min_items and max_items set and a
\* range-constrained element type, the standard constructor rejects a list
\* shorter than min_items, a list longer than max_items, and a list of valid
\* length that holds an element outside the element range, each on its own.
C15_ListValidatorComposed ==
    LET data_type == schema.all_fields[1].data_type
    IN  (call.name = "new" /\ data_type.kind = "List")
        => LET items == call.arg[1].items
               rejected == result.raised.name = "IllegalArgumentException"
           IN  /\ Len(items) < data_type.min_items.v => rejected
               /\ Len(items) > data_type.max_items.v => rejected
               /\ ( /\ Len(items) >= data_type.min_items.v
                    /\ Len(items) <= data_type.max_items.v
                    /\ \E i \in 1..Len(items) :
                          OutOfRange(data_type.data_type, items[i]) )
                  => rejected


\* ------------------------------------------------------------------ structs: the dictionary keys

\* The struct's serializer builds its instances itself and every field is
\* of a primitive type.
SerializesFields(struct) ==
    /\ ~has_enumerated_subtypes(struct)
    /\ \A i \in 1..Len(struct.all_fields) :
          ~is_user_defined_type(
              unwrap_nullable(struct.all_fields[i].data_type)[1])

NumericTypes ==
    {Int32(range[1], range[2]) :
        range \in {r \in Constraints \X Constraints :
                      (r[1].set /\ r[2].set) => r[1].v <= r[2].v}}
    \cup {UInt32(None, None), UInt32(Some(0), None), UInt32(None, Some(1)),
          UInt32(Some(0), Some(1))}

Patterns == {None, Some("a"), Some("\\d"), Some("\"")}

\* The schema parser accepts min_length from 0 and max_length from 1, with
\* min_length at most max_length.
StringTypes ==
    {String(c[1], c[2], pattern) :
        c \in {r \in ({None} \cup {Some(v) : v \in 0..MaxBound})
                     \X ({None} \cup {Some(v) : v \in 1..MaxBound}) :
                  (r[1].set /\ r[2].set) => r[1].v <= r[2].v},
        pattern \in Patterns}

\* The types without a validator of their own.
PlainTypes == {Boolean, Bytes, Timestamp("%Y"), Void, FieldUnion, KeyedStruct}

ListTypes ==
    {List(data_type, c[1], c[2]) :
        data_type \in {Int32(None, None), Int32(Some(1), None),
                       Nullable(Int32(None, Some(1))), Boolean,
                       String(None, Some(1), None)},
        c \in {r \in ({None} \cup {Some(v) : v \in 0..MaxItems})
                     \X ({None} \cup {Some(v) : v \in 1..MaxItems}) :
                  (r[1].set /\ r[2].set) => r[1].v <= r[2].v}}

ComposerTypes ==
    LET types == NumericTypes \cup StringTypes \cup PlainTypes \cup ListTypes
    IN  types \cup {Nullable(data_type) : data_type \in types \ {Void}}

ComposerInit ==
    /\ schema \in ComposerTypes
    /\ code = << >>
    /\ obj = NoObj
    /\ wire = EmptyDict
    /\ call = NoCall
    /\ result = NoResult

\* self._determine_validator_type(data_type, value)
Compose ==
    /\ call' = Call("compose", 0, Nil)
    /\ result' = [raised |-> NoExc,
                  ret |-> _determine_validator_type(schema, "value")]
    /\ UNCHANGED <<schema, code, obj, wire>>

ComposerNext == Compose

SpecComposer == ComposerInit /\ [][ComposerNext]_vars

\* ------------------------------------------------------------------ validator composition: the properties

\* The validator inside the nullable adapter, when there is one.
InnerValidator(validator) ==
    IF validator.v = "nullableValidator" THEN validator.inner ELSE validator

\* The argument that carries a constraint: its value when it is set.
Carried(constraint) ==
    IF constraint.set THEN NumberWithInt(constraint.v) ELSE Nil

\* C17: the validator expression composed for a type carries the value of
\* every constraint the type sets, a constraint set to 0 included, and nil
\* only for a constraint that is not set; a numeric or string type gets a
\* validator exactly when at least one of its constraints is set.
C17_ValidatorCarriesConstraints ==
    call.name = "compose"
    => LET dt == unwrap_nullable(schema)[1]
           validator == InnerValidator(result.ret)
       IN  /\ is_numeric_type(dt)
              => /\ (validator # NoValidator)
                       <=> (dt.min_value.set \/ dt.max_value.set)
                 /\ validator # NoValidator
                       => /\ validator.minValue = Carried(dt.min_value)
                          /\ validator.maxValue = Carried(dt.max_value)
           /\ is_string_type(dt)
              => /\ (validator # NoValidator)
                       <=> \/ dt.min_length.set \/ dt.max_length.set
                           \/ dt.pattern.set
                 /\ validator # NoValidator
                       => /\ validator.minLength = Carried(dt.min_length)
                          /\ validator.maxLength = Carried(dt.max_length)
                          /\ (validator.pattern = Nil) <=> ~dt.pattern.set
           /\ is_list_type(dt)
              => /\ validator.minItems = Carried(dt.min_items)
                 /\ validator.maxItems = Carried(dt.max_items)


\* C20: the validator composed for a nullable type is the validator of the
\* inner type wrapped in the nullable adapter, and there is none when the
\* inner type has none; a boolean, bytes, timestamp, void, struct or union
\* type gets no validator, nullable or not.
C20_NullableWrapsInner ==
    call.name = "compose"
    => /\ schema.kind = "Nullable"
          => LET inner == _determine_validator_type(schema.data_type, "value")
             IN  IF inner = NoValidator
                 THEN result.ret = NoValidator
                 ELSE /\ result.ret.v = "nullableValidator"
                      /\ result.ret.inner = inner
       /\ unwrap_nullable(schema)[1].kind
             \in {"Boolean", "Bytes", "Timestamp", "Void", "Struct", "Union"}
          => result.ret = NoValidator

\* A validator was composed for a nullable type whose inner type has one.
C20_Witness ==
    /\ call.name = "compose"
    /\ schema.kind = "Nullable"
    /\ _determine_validator_type(schema.data_type, "value") # NoValidator
    /\ result.ret.v = "nullableValidator"


\* ------------------------------------------------------------------ defaults of every type: the operations

\* A type with a default of that type: a number, a boolean, a string, a
\* void tag of a union.
TypedDefaults ==
    {<<Int32(None, None), PyInt(n)>> : n \in 0..MaxValue}
    \cup {<<Boolean, PyBool(b)>> : b \in BOOLEAN}
    \cup {<<String(None, None, None), PyStr("a")>>,
          <<FieldUnion, TagRef(FieldUnion, <<"y">>)>>}

\* A plain struct with a field without a default and two defaulted fields.
TypedStruct(a, b) ==
    LET fields == <<Field(<<"id">>, Int32(None, None)),
                    DefaultField(<<"a">>, a[1], a[2]),
                    DefaultField(<<"b">>, b[1], b[2])>>
    IN  [kind |-> "Struct", name |-> <<"folder">>, supertype |-> << >>,
         fields |-> fields, all_fields |-> fields, subtypes |-> << >>]

\* A data type is declared once in its namespace.
TypedSchemas ==
    {TypedStruct(c[1], c[2]) :
        c \in {d \in TypedDefaults \X TypedDefaults :
                  ~(is_tag_ref(d[1][2]) /\ is_tag_ref(d[2][2]))}}

\* The generator has run over the namespace.
TypedInit ==
    /\ schema \in TypedSchemas
    /\ code = generate(NamespaceOf(schema)).code
    /\ result = [raised |-> generate(NamespaceOf(schema)).exc, ret |-> Nil]
    /\ obj = NoObj
    /\ wire = EmptyDict
    /\ call = NoCall

\* The standard constructor of the emitted class, when one was emitted.
NewTyped ==
    /\ code # << >>
    /\ \E args \in StandardInputs(schema) : NewStruct(0, args)

TypedNext == NewTyped

SpecTypedDefaults == TypedInit /\ [][TypedNext]_vars

\* ------------------------------------------------------------------ defaults of every type: the properties

\* The value the schema gives a defaulted field: the number, the boolean,
\* the string, the instance of the union with the tag active.
DefaultOf(field) ==
    CASE field.default.py = "int" -> Num(field.default.n)
      [] field.default.py = "bool" -> Num(IF field.default.b THEN 1 ELSE 0)
      [] field.default.py = "str" -> Str(field.default.s)
      [] field.default.py = "TagRef" ->
            LET union == field.default.union_data_type
                class == ClassOf(code, Join(<<"Shape">>, ""))
            IN  [NewInstance(code, class) EXCEPT
                    !.tag = (CHOOSE i \in 1..Len(union.all_fields) :
                                union.all_fields[i].name
                                   = field.default.tag_name) - 1]

\* C19: the emission of the standard constructor succeeds for every struct,
\* and for every defaulted field, whatever its type (numeric, boolean,
\* string, tag of a union), the constructor assigns the argument, or the
\* field's default when the argument is nil.
C19_DefaultOfEveryType ==
    /\ code # << >>
    /\ call.name = "new"
       => /\ result.raised = NoExc
          /\ \A i \in 1..Len(schema.all_fields) :
                LET field == schema.all_fields[i]
                IN  field.has_default
                    => obj.ivars[fmt_var(field.name)] =
                          IF call.arg[i] = Nil THEN DefaultOf(field)
                          ELSE call.arg[i]


\* ------------------------------------------------------------------ structs: the order of the standard constructor

\* The validator of the i-th field of the struct rejects the argument.
FailsValidator(struct, args, i) ==
    LET validator ==
            _determine_validator_type(struct.all_fields[i].data_type,
                                      fmt_var(struct.all_fields[i].name))
    IN  /\ validator # NoValidator
        /\ RunValidator(validator, args[i]) # NoExc

\* C18: the standard constructor takes one parameter per field of
\* all_fields, in that order, and runs the validator of every parameter
\* before it assigns any field: an argument its validator rejects makes the
\* constructor raise with no field set, and every other construction
\* returns an instance that holds the arguments as they were passed (the
\* default in place of nil for a defaulted field), unclamped.
C18_ValidatorsBeforeAssignments ==
    \A k \in Structs :
        LET struct == StructType(k)
            fields == struct.all_fields
            cstor == StructClass(k).cstors[1]
            body == cstor.body
        IN  /\ cstor.params = [i \in 1..Len(fields) |-> fmt_var(fields[i].name)]
            /\ \A i, j \in 1..Len(body) :
                  (i < j /\ body[j].s = "validate") => body[i].s = "validate"
            /\ (call.name = "new" /\ call.variant = k)
               => IF \E i \in 1..Len(fields) : FailsValidator(struct, call.arg, i)
                  THEN /\ result.raised.name = "IllegalArgumentException"
                       /\ obj = NoObj
                  ELSE /\ result.raised = NoExc
                       /\ obj.class = StructClass(k).name
                       /\ \A i \in 1..Len(fields) :
                             obj.ivars[fmt_var(fields[i].name)] =
                                IF call.arg[i] = Nil /\ fields[i].has_default
                                THEN Num(fields[i].default.n)
                                ELSE call.arg[i]

\* The standard constructor of a subtype raised for an argument that the
\* validator of an inherited field rejects, the other arguments being
\* acceptable.
C18_Witness ==
    /\ call.name = "new"
    /\ call.variant > 0
    /\ call.arg[2] # Nil
    /\ FailsValidator(StructType(call.variant), call.arg, 2)
    /\ result.raised.name = "IllegalArgumentException"
    /\ obj = NoObj


\* ------------------------------------------------------------------ constructor signatures: the operations

\* A root struct with two fields and a subtype with one more; each field is
\* given as its type and its default, PyNone for a field without one.
SignatureStruct(id, a, b) ==
    LET typed(name, t) ==
            [name |-> name, data_type |-> t[1],
             has_default |-> t[2] # PyNone, default |-> t[2]]
        root_fields == <<typed(<<"id">>, id), typed(<<"a">>, a)>>
        sub == [kind |-> "Struct", name |-> <<"file">>,
                supertype |-> <<"root">>,
                fields |-> <<typed(<<"b">>, b)>>,
                all_fields |-> root_fields \o <<typed(<<"b">>, b)>>,
                subtypes |-> << >>]
    IN  [kind |-> "Struct", name |-> <<"root">>, supertype |-> << >>,
         fields |-> root_fields, all_fields |-> root_fields,
         subtypes |-> <<[tag |-> <<"file">>, data_type |-> sub]>>]

SignatureSchemas ==
    {SignatureStruct(id, a, b) :
        id \in {<<Int32(None, None), PyNone>>, <<Int32(None, None), PyInt(1)>>},
        a \in {<<Int32(None, None), PyNone>>, <<Int32(None, None), PyInt(1)>>,
               <<Nullable(Int32(None, None)), PyNone>>,
               <<List(Boolean, None, None), PyNone>>,
               <<Nullable(String(None, None, None)), PyNone>>},
        b \in {<<Int32(None, None), PyNone>>, <<Int32(None, None), PyInt(1)>>,
               <<Nullable(Int32(None, None)), PyNone>>}}

SignatureInit ==
    /\ schema \in SignatureSchemas
    /\ code = _generate_namespace_types(NamespaceOf(schema))
    /\ obj = NoObj
    /\ wire = EmptyDict
    /\ call = NoCall
    /\ result = NoResult

\* The argument lists of the standard constructor when nil may be passed
\* for every parameter: the compiler at most warns about it.
NilInputs(struct) ==
    {args \in [1..Len(struct.all_fields) ->
                  UNION {FieldInputs(struct.all_fields[i].data_type, Numbers) :
                            i \in 1..Len(struct.all_fields)} \cup {Nil}] :
        \A i \in 1..Len(struct.all_fields) :
            \/ args[i] \in FieldInputs(struct.all_fields[i].data_type, Numbers)
            \/ args[i] = Nil}

SignaturesNext ==
    \/ \E k \in Structs :
          \E args \in NilInputs(StructType(k)) : NewStruct(k, args)
    \/ \E k \in Structs :
          \E args \in CstorInputs(WithoutDefaults(StructType(k)), Numbers) :
             NewStructDefault(k, args)

SpecSignatures == SignatureInit /\ [][SignaturesNext]_vars

\* ------------------------------------------------------------------ constructor signatures: the properties

\* The positions of all_fields whose field has no default, in order.
WithoutDefault(struct) ==
    SelectSeq([i \in 1..Len(struct.all_fields) |-> i],
              LAMBDA i : ~struct.all_fields[i].has_default)

\* C21: the convenience constructor is emitted, in the header and in the
\* implementation, exactly when a field of all_fields has a default; its
\* parameters are the fields without a default in the order of all_fields,
\* and it forwards to the standard constructor with nil for every defaulted
\* field and its own parameter for every other field, in that order.
C21_ConvenienceConstructorEmitted ==
    \A k \in Structs :
        LET struct == StructType(k)
            fields == struct.all_fields
            class == StructClass(k)
            defaulted == \E i \in 1..Len(fields) : fields[i].has_default
            kept == WithoutDefault(struct)
            names == [j \in 1..Len(kept) |-> fmt_var(fields[kept[j]].name)]
        IN  /\ Len(class.cstors) = IF defaulted THEN 2 ELSE 1
            /\ Len(class.header.cstors) = IF defaulted THEN 2 ELSE 1
            /\ defaulted
               => /\ class.cstors[2].params = names
                  /\ class.header.cstors[2].params = names
                  /\ class.header.cstors[2].name = class.cstors[2].name
                  /\ Len(class.cstors[2].body) = 1
                  /\ class.cstors[2].body[1].s = "return_self_init"
                  /\ class.cstors[2].body[1].cstor = class.cstors[1].name
                  /\ class.cstors[2].body[1].args =
                        [i \in 1..Len(fields) |->
                            IF fields[i].has_default THEN [e |-> "nil"]
                            ELSE [e |-> "arg", name |-> fmt_var(fields[i].name)]]
            /\ (call.name = "newDefault" /\ call.variant = k)
               => LET forwarded ==
                          [i \in 1..Len(fields) |->
                              IF fields[i].has_default THEN Nil
                              ELSE call.arg[Cardinality(
                                      {j \in 1..i : ~fields[j].has_default})]]
                      standard == Construct(code, class, class.cstors[1],
                                            forwarded, Env0)
                  IN  /\ result.raised = standard.exc
                      /\ obj = IF standard.ok THEN standard.v ELSE NoObj

\* The convenience constructor of a subtype that inherits its only
\* defaulted field returned an instance.
C21_Witness ==
    /\ call.name = "newDefault"
    /\ call.variant > 0
    /\ ~StructType(call.variant).fields[1].has_default
    /\ Len(call.arg) = 2
    /\ result.raised = NoExc
    /\ obj.class = StructClass(call.variant).name

\* ------------------------------------------------------------------ serialization calls: the operations

\* Lists nest to this depth.
MaxDepth == 2

Formats == {"%Y", "%Y-%m"}

ScalarTypes ==
    {Int32(None, None), UInt32(None, None), Boolean, Bytes,
     String(None, None, None), FieldUnion, KeyedStruct}
    \cup {Timestamp(format) : format \in Formats}

\* The scalar types and the lists over them, nested up to a depth; an
\* element may be nullable.
RECURSIVE NestedTypes(_)
NestedTypes(depth) ==
    IF depth = 0 THEN ScalarTypes
    ELSE LET elements == NestedTypes(depth - 1)
         IN  ScalarTypes
             \cup {List(element, None, None) : element \in elements}
             \cup {List(Nullable(element), None, None) : element \in elements}

SerialTypes ==
    LET types == NestedTypes(MaxDepth)
    IN  types \cup {Nullable(data_type) : data_type \in types}

\* The expressions a serializer hands over: a property of the value object
\* and an entry of the JSON dictionary.
InputValues ==
    {[e |-> "prop", receiver |-> "valueObj", name |-> "id"],
     [e |-> "dict_get", receiver |-> "valueDict", key |-> "id"]}

SerialInit ==
    /\ schema \in SerialTypes
    /\ code = << >>
    /\ obj = NoObj
    /\ wire = EmptyDict
    /\ call = NoCall
    /\ result = NoResult

\* self._fmt_serialization_call(data_type, input_value, serialize)
FmtSerializationCall(input_value, serialize) ==
    /\ call' = Call(IF serialize THEN "serialize" ELSE "deserialize", 0,
                    input_value)
    /\ result' = [raised |-> NoExc,
                  ret |-> _fmt_serialization_call(schema, input_value,
                                                  serialize)]
    /\ UNCHANGED <<schema, code, obj, wire>>

SerialNext ==
    \E input_value \in InputValues, serialize \in BOOLEAN :
        FmtSerializationCall(input_value, serialize)

SpecSerialCalls == SerialInit /\ [][SerialNext]_vars

\* ------------------------------------------------------------------ serialization calls: the properties

\* The same expression with every direction name replaced.
RECURSIVE Towards(_, _)
Towards(expr, func) ==
    [expr EXCEPT
        !.func = func,
        !.args = [i \in 1..Len(expr.args) |->
                    IF expr.args[i].name = "withBlock"
                    THEN [expr.args[i] EXCEPT
                            !.value.body = Towards(expr.args[i].value.body, func)]
                    ELSE expr.args[i]]]

\* Is expr the call of one direction on a value of a type: the serializer
\* of the type under one nullable layer, the value, and for a list a block
\* that is such a call on its parameter for the element type, for a
\* timestamp the format?
RECURSIVE IsCallFor(_, _, _, _)
IsCallFor(expr, data_type, input_value, func) ==
    LET dt == IF data_type.kind = "Nullable" THEN data_type.data_type
              ELSE data_type
    IN  /\ expr.e = "serial_call"
        /\ expr.func = func
        /\ expr.serial_obj =
              IF dt.kind \in {"Struct", "Union"}
              THEN fmt_class(dt.name) \o "Serializer"
              ELSE _serial_table[dt.kind]
        /\ expr.args[1] = [name |-> "value", value |-> input_value]
        /\ CASE dt.kind = "List" ->
                    /\ Len(expr.args) = 2
                    /\ expr.args[2].name = "withBlock"
                    /\ expr.args[2].value.e = "block"
                    /\ IsCallFor(expr.args[2].value.body, dt.data_type,
                                 [e |-> "arg",
                                  name |-> expr.args[2].value.param],
                                 func)
             [] dt.kind = "Timestamp" ->
                    /\ Len(expr.args) = 2
                    /\ expr.args[2] =
                          [name |-> "dateFormat",
                           value |-> [e |-> "string", s |-> dt.format]]
             [] OTHER -> Len(expr.args) = 1

\* C22: the serialize and the deserialize expression of a type have the
\* same structure and differ in the direction name only; the serializer is
\* the primitive serializer or <ClassName>Serializer of the type under one
\* nullable layer; a list passes a per-element callback built by the same
\* rule at every depth, and a timestamp passes its format in both
\* directions.
C22_SerializationCallsMirror ==
    call.name \in {"serialize", "deserialize"}
    => LET other == IF call.name = "serialize" THEN "deserialize"
                    ELSE "serialize"
       IN  /\ IsCallFor(result.ret, schema, call.arg, call.name)
           /\ Towards(result.ret, other)
                 = _fmt_serialization_call(schema, call.arg,
                                           other = "serialize")
           /\ Towards(result.ret, other) # result.ret

\* The deserialize call of a nullable list of lists of timestamps was built.
C22_Witness ==
    /\ call.name = "deserialize"
    /\ schema = Nullable(List(List(Timestamp("%Y-%m"), None, None), None, None))
    /\ result.ret.args[2].value.body.args[2].value.body.args[2].value.s = "%Y-%m"

\* ------------------------------------------------------------------ the type resolver: the operations

\* Void is the type of a union variant without a value and of a route
\* without an argument; it is never an element and never has a default.
ResolverTypes == SerialTypes \cup {Void}

ResolverInit ==
    /\ schema \in ResolverTypes
    /\ code = << >>
    /\ obj = NoObj
    /\ wire = EmptyDict
    /\ call = NoCall
    /\ result = NoResult

\* fmt_type(data_type, tag=tag, has_default=has_default)
FmtType(tag, has_default) ==
    /\ schema = Void => ~has_default
    /\ call' = Call("fmt_type", 0, [tag |-> tag, has_default |-> has_default])
    /\ result' = [raised |-> NoExc,
                  ret |-> fmt_type(schema, tag, has_default)]
    /\ UNCHANGED <<schema, code, obj, wire>>

ResolverNext ==
    \E tag \in BOOLEAN, has_default \in BOOLEAN : FmtType(tag, has_default)

SpecResolver == ResolverInit /\ [][ResolverNext]_vars

\* ------------------------------------------------------------------ the type resolver: the properties

\* A type under one nullable layer.
Unwrapped(data_type) ==
    IF data_type.kind = "Nullable" THEN data_type.data_type ELSE data_type

Qualifiers == {" _Nullable", " _Nonnull"}

\* How many nullability qualifiers a resolved type carries.
QualifierCount(type_text) ==
    Cardinality({i \in 1..Len(type_text) : type_text[i] \in Qualifiers})

\* C23: a list of any element type, Boolean and lists included, resolves
\* to the sequence type parameterized by the resolved element type, the
\* element taken under one nullable layer.
C23_ListIsParameterized ==
    (call.name = "fmt_type" /\ Unwrapped(schema).kind = "List")
    => LET element == Unwrapped(Unwrapped(schema).data_type)
           expected == <<"NSArray", "<">> \o fmt_type(element, FALSE, FALSE)
                       \o <<">", " *">>
       IN  /\ Len(result.ret) >= Len(expected)
           /\ SubSeq(result.ret, 1, Len(expected)) = expected

\* C28: the resolved type carries no nullability qualifier without tag, and
\* exactly one with tag when the type is not void, lists of Boolean
\* included.
C28_OneQualifierWhenTagged ==
    call.name = "fmt_type"
    => /\ ~call.arg.tag => QualifierCount(result.ret) = 0
       /\ (call.arg.tag /\ schema # Void) => QualifierCount(result.ret) = 1

\* ------------------------------------------------------------------ constructor signatures: parameter types

\* Does a resolved parameter type end in the qualifier, and in no other?
QualifiedAs(type_text, qualifier) ==
    /\ type_text[Len(type_text)] = qualifier
    /\ \A i \in 1..Len(type_text) :
          (type_text[i] \in Qualifiers /\ \A j \in i..Len(type_text) :
                                              type_text[j] \in Qualifiers)
          => type_text[i] = qualifier

\* C24: in a struct's header signatures a parameter's type is qualified
\* nullable exactly when its field is Nullable or has a default, non-null
\* otherwise, and void is left unqualified; a header signature and its
\* implementation list the same parameters in the same order.
C24_ParameterQualifiers ==
    /\ QualifierCount(fmt_type(Void, TRUE, FALSE)) = 0
    /\ \A k \in Structs :
        LET class == StructClass(k)
            all == StructType(k).all_fields
            kept == WithoutDefault(StructType(k))
            listed(c) == IF c = 1 THEN [i \in 1..Len(all) |-> all[i]]
                         ELSE [j \in 1..Len(kept) |-> all[kept[j]]]
        IN  \A c \in 1..Len(class.cstors) :
                LET fields == listed(c)
                    header == class.header.cstors[c]
                IN  /\ header.name = class.cstors[c].name
                    /\ header.params = class.cstors[c].params
                    /\ header.params =
                          [i \in 1..Len(fields) |-> fmt_var(fields[i].name)]
                    /\ Len(header.types) = Len(fields)
                    /\ \A i \in 1..Len(fields) :
                          QualifiedAs(header.types[i],
                              IF \/ fields[i].data_type.kind = "Nullable"
                                 \/ fields[i].has_default
                              THEN " _Nullable" ELSE " _Nonnull")

\* A struct with a defaulted field, a nullable field and a plain field was
\* built with its standard constructor.
C24_Witness ==
    /\ call.name = "new"
    /\ call.variant > 0
    /\ result.raised = NoExc
    /\ LET all == StructType(call.variant).all_fields
       IN  /\ all[1].has_default
           /\ all[2].data_type.kind = "Nullable"
           /\ ~all[3].has_default /\ all[3].data_type.kind # "Nullable"
    /\ obj.class = StructClass(call.variant).name

\* ------------------------------------------------------------------ identifiers: the operations

\* Most words of a name.
MaxWords == 3

Vocabulary == {"n", "s", "object", "new", "copy", "id", "file", "x"}

\* The names of 1..MaxWords words of the vocabulary.
NameInputs ==
    UNION {[1..len -> Vocabulary] : len \in 1..MaxWords}

Formatters == {"fmt_camel", "fmt_camel_upper", "fmt_var", "fmt_class"}

NamesInit ==
    /\ schema \in {[kind |-> "Name", name |-> name] : name \in NameInputs}
    /\ code = << >>
    /\ obj = NoObj
    /\ wire = EmptyDict
    /\ call = NoCall
    /\ result = NoResult

\* fmt_camel(name), fmt_camel_upper(name), fmt_var(name), fmt_class(name)
FmtName(formatter) ==
    /\ call' = Call(formatter, 0, Nil)
    /\ result' = [raised |-> NoExc,
                  ret |-> CASE formatter = "fmt_camel" ->
                                  fmt_camel(schema.name, FALSE)
                            [] formatter = "fmt_camel_upper" ->
                                  fmt_camel_upper(schema.name)
                            [] formatter = "fmt_var" -> fmt_var(schema.name)
                            [] formatter = "fmt_class" ->
                                  fmt_class(schema.name)]
    /\ UNCHANGED <<schema, code, obj, wire>>

NamesNext == \E formatter \in Formatters : FmtName(formatter)

SpecNames == NamesInit /\ [][NamesNext]_vars

\* ------------------------------------------------------------------ identifiers: the properties

\* The capital letters the identifiers of the vocabulary hold.
LowerCase ==
    [N |-> "n", S |-> "s", O |-> "o", C |-> "c", I |-> "i", F |-> "f",
     X |-> "x", T |-> "t"]

\* An identifier in lower case.
RECURSIVE ToLower(_)
ToLower(identifier) ==
    IF Len(identifier) = 0 THEN ""
    ELSE LET first == SubSeq(identifier, 1, 1)
         IN  (IF first \in DOMAIN LowerCase THEN LowerCase[first] ELSE first)
             \o ToLower(SubSeq(identifier, 2, Len(identifier)))

\* C25: for every name the identifier a formatter returns is no word of
\* the reserved-word table and does not start, in any case, with a reserved
\* prefix.
C25_IdentifierNotReserved ==
    call.name \in Formatters
    => /\ result.ret \notin _reserved_words
       /\ \A prefix \in _reserved_prefixes :
             ~startswith(ToLower(result.ret), prefix)

\* ------------------------------------------------------------------ structs: termination of serialize

\* C26: serialize of a struct returns for every instance, one whose class
\* is exactly the root of an enumerated-subtype hierarchy included: the
\* serializer never calls itself on the object it was given.
C26_SerializeTerminates ==
    call.name = "serialize" => result.raised # Exc("StackOverflow")

\* ------------------------------------------------------------------ defaults: what the constructor stores

\* C27: after the standard constructor returned, every field that is not
\* nullable holds a value: a defaulted field passed nil holds its default,
\* and nil passed for a field without a default is not stored as nil.
C27_NonNullableFieldsHoldValues ==
    (call.name = "new" /\ result.raised = NoExc)
    => \A i \in 1..Len(StructType(call.variant).all_fields) :
          LET field == StructType(call.variant).all_fields[i]
              stored == obj.ivars[fmt_var(field.name)]
          IN  /\ field.data_type.kind # "Nullable" => stored # Nil
              /\ (field.has_default /\ call.arg[i] = Nil)
                 => stored = DefaultOf(field)

\* ------------------------------------------------------------------ the client generator: route headers

is_struct_type(data_type) == data_type.kind = "Struct"
is_union_type(data_type) == data_type.kind = "Union"

\* The names obj_c_client.py binds at module level (its imports and its
\* definitions) and the names _generate_routes_h binds before the route's
\* comment is made.
RoutesHeaderNames ==
    {"argparse", "json", "os", "re", "contextmanager",
     "is_list_type", "is_struct_type", "is_user_defined_type",
     "is_union_type", "is_void_type", "unwrap_nullable",
     "fmt_camel", "fmt_camel_upper", "fmt_class", "fmt_func",
     "fmt_func_args", "fmt_func_args_declaration", "fmt_func_call",
     "fmt_import", "fmt_property_str", "fmt_public_name", "fmt_serial_obj",
     "fmt_signature", "fmt_type", "fmt_var", "is_primitive_type",
     "is_ptr_type", "base", "comment_prefix", "ObjCBaseGenerator",
     "stone_warning", "undocumented", "_cmdline_parser",
     "ObjCGenerator",
     "self", "namespace", "import_classes", "route", "arg_list", "doc_list",
     "result_type"}

\* The parameters of a route's method and their documentation.  The fields
\* of the model carry no documentation, so a struct argument documents no
\* parameter.
_get_route_args(namespace, route) ==
    LET data_type == route.arg_data_type
        arg_type == fmt_type(data_type, TRUE, FALSE)
    IN  IF is_struct_type(data_type)
        THEN [arg_list |->
                [i \in 1..Len(data_type.all_fields) |->
                    LET field == data_type.all_fields[i]
                    IN  <<fmt_var(field.name),
                          fmt_type(unwrap_nullable(field.data_type)[1], TRUE,
                                   field.has_default)>>],
              doc_list |-> << >>]
        ELSE IF is_union_type(data_type)
        THEN [arg_list |-> <<<<fmt_var(data_type.name),
                               <<fmt_class(data_type.name), " * _Nonnull">>>>>>,
              doc_list |-> <<<<fmt_var(data_type.name),
                               "The " \o fmt_class(data_type.name)
                                   \o " union">>>>]
        ELSE [arg_list |-> IF is_void_type(route.arg_data_type) THEN << >>
                           ELSE <<<<"request", arg_type>>>>,
              doc_list |-> << >>]

\* What the loop body of _generate_routes_h emits for one route: the
\* comment lines and the signature, or the exception that ends it.  The
\* comment of a route without documentation is made from func_name, a name
\* that nothing binds.
RouteHeader(namespace, route) ==
    LET args == _get_route_args(namespace, route)
        result_type ==
            IF ~is_void_type(route.result_data_type)
            THEN fmt_type(route.result_data_type, FALSE, FALSE)
                 \o <<" _Nullable">>
            ELSE << >>
        arg_list ==
            args.arg_list
            \o <<<<"success", <<"void (^ _Nullable)(">> \o result_type \o <<")">>>>,
                 <<"fail",
                   <<"void (^ _Nullable)(DropboxError * _Nonnull error)">>>>>>
        documented == route.doc.py = "str" /\ route.doc.s # ""
        parameters ==
            [i \in 1..Len(args.doc_list) |->
                [line |-> "parameter", name |-> args.doc_list[i][1],
                 doc |-> args.doc_list[i][2]]]
        returns == [line |-> "returns",
                    result |-> fmt_type(route.result_data_type, TRUE, FALSE),
                    error |-> fmt_type(route.error_data_type, TRUE, FALSE)]
        signature ==
            [line |-> "signature",
             signature |-> fmt_signature(fmt_var(route.name),
                               fmt_func_args_declaration(arg_list), "void")]
    IN  IF documented
        THEN [exc |-> NoExc,
              emitted |-> <<[line |-> "doc", doc |-> route.doc.s]>>
                          \o parameters \o <<returns, signature>>]
        ELSE IF "func_name" \in RoutesHeaderNames
        THEN [exc |-> NoExc,
              emitted |-> <<[line |-> "doc", doc |-> "The  route"]>>
                          \o parameters \o <<returns, signature>>]
        ELSE [exc |-> Exc("NameError"), emitted |-> << >>]

\* The header of a namespace's routes: the init signature, then every
\* route in order, then the client property.  An exception ends the
\* emission where it is raised.
RECURSIVE RouteHeadersFrom(_, _)
RouteHeadersFrom(namespace, i) ==
    IF i > Len(namespace.routes)
    THEN [exc |-> NoExc,
          emitted |-> <<[line |-> "property",
                         property |-> fmt_property_str("client",
                                         "TransportClient * _Nonnull")]>>]
    ELSE With(RouteHeader(namespace, namespace.routes[i]), LAMBDA first :
            IF first.exc # NoExc THEN first
            ELSE With(RouteHeadersFrom(namespace, i + 1), LAMBDA rest :
                    [exc |-> rest.exc,
                     emitted |-> first.emitted \o rest.emitted]))

_generate_routes_h(namespace) ==
    With(RouteHeadersFrom(namespace, 1), LAMBDA routes :
        [exc |-> routes.exc,
         emitted |->
            <<[line |-> "signature",
               signature |-> fmt_signature("init",
                                 fmt_func_args_declaration(
                                    <<<<"client",
                                        <<"TransportClient * _Nonnull">>>>>>),
                                 "nonnull instancetype")]>>
            \o routes.emitted])

\* ------------------------------------------------------------------ the client generator: the operations

\* Most routes of a namespace.
MaxRoutes == 2

RouteNames == <<<<"x">>, <<"file">>, <<"size">>, <<"count">>>>

\* The i-th route of a namespace: with or without documentation, taking
\* nothing, a number, a struct or a union, returning nothing or a number.
RoutesAt(i) ==
    {[name |-> RouteNames[i], doc |-> doc, arg_data_type |-> arg,
      result_data_type |-> res, error_data_type |-> FieldUnion] :
        doc \in {PyNone, PyStr("d")},
        arg \in {Void, Int32(None, None), KeyedStruct, FieldUnion},
        res \in {Void, Int32(None, None)}}

Namespaces ==
    UNION {{[kind |-> "Namespace", name |-> <<"meta">>, routes |-> routes] :
              routes \in {r \in [1..len -> UNION {RoutesAt(i) : i \in 1..len}] :
                             \A i \in 1..len : r[i] \in RoutesAt(i)}} :
           len \in 0..MaxRoutes}

RoutesInit ==
    /\ schema \in Namespaces
    /\ code = << >>
    /\ obj = NoObj
    /\ wire = EmptyDict
    /\ call = NoCall
    /\ result = NoResult

\* self._generate_routes_h(namespace)
GenerateRoutesH ==
    /\ call' = Call("_generate_routes_h", 0, Nil)
    /\ \E header \in {_generate_routes_h(schema)} :
          result' = [raised |-> header.exc, ret |-> header.emitted]
    /\ UNCHANGED <<schema, code, obj, wire>>

RoutesNext == GenerateRoutesH

SpecRoutes == RoutesInit /\ [][RoutesNext]_vars

\* ------------------------------------------------------------------ the client generator: the properties

\* C29: the emission of the route header completes and emits one method
\* signature for every route of the namespace, documented or not; a route
\* without documentation gets a generated comment.
C29_RouteHeaderCompletes ==
    call.name = "_generate_routes_h"
    => /\ result.raised = NoExc
       /\ \A i \in 1..Len(schema.routes) :
             Cardinality({j \in 1..Len(result.ret) :
                            /\ result.ret[j].line = "signature"
                            /\ result.ret[j].signature.name
                                  = fmt_var(schema.routes[i].name)}) = 1
       /\ Cardinality({j \in 1..Len(result.ret) : result.ret[j].line = "doc"})
             = Len(schema.routes)

====
